---- MODULE Spec2Model ----
(***************************************************************************)
(* A model of byoc's resolution engine: the parameter binding protocol     *)
(* (byoc/params/param.py) and the Loader's multi-phase orchestration       *)
(* (byoc/load.py).  Execution is single-threaded and depth-first, so the   *)
(* model keeps an explicit call stack of the frames that are active        *)
(* (Loader.load, Config.load, param.load_value) and an exception in        *)
(* flight that unwinds it through the `finally` clauses of the source.     *)
(***************************************************************************)
EXTENDS Integers, Sequences, FiniteSets, TLC

(* ------------------------------ bounds --------------------------------- *)
NApps == 2
NParams == 2
NConfigs == 2
NLoaders == 2
MaxReads == 1
MaxBatch == 2
MaxCfgReads == 2
MaxCalls == 2
MaxAdds == 1
MaxHooks == 1
MaxFairAttrs == 1
MaxGetters == 2
MaxPickConfigs == 2
MaxFinders == 2
MaxFound == 2
MaxCands == 2
MaxMro == 2
MaxItems == 2
MaxDepth == 2
MaxGets == 1
MaxSlots == 3
MaxApply == 2
NDiamond == 4
MaxAsks == 2
NVals == 2
NClasses == 2

Apps == 1..NApps
Loaders == 1..NLoaders

AppOf(k) == k[1]
ParamOf(k) == k[2]

\* The config list handed to each Loader's constructor; config objects are
\* named by their position.  Loader 1 is the application's loader, the other
\* loaders are plain Loader(attrs, []) objects.
ConfigsOf(l) == IF l = 1 THEN [i \in 1..NConfigs |-> i] ELSE << >>

None == 0

VARIABLES
    attributes,      \* Loader._attributes: keys in dict insertion order
    locked_keys,     \* Loader._locked_keys
    loaded_keys,     \* Loader._loaded_keys
    pending_keys,    \* Loader._pending_keys
    mid_load_keys,   \* Loader._mid_load_keys
    loaded_configs,  \* Loader._loaded_configs
    is_loading,      \* Loader._is_loading
    p_loader,        \* param._loader (None or a loader)
    begin_count,     \* param._begin_count
    app_attr,        \* the value slot written by Attribute.set_attr / del_attr
    app_meta,        \* the provenance slot written by set_meta / del_meta
    reads,           \* the getters of each param: the params of the same app they read
    on_load,         \* the params that have an on_load hook
    getters,         \* param.getters of the param whose candidates are picked
    configs,         \* the configs handed to that param's getters
    apply,           \* the apply of each Key getter and of that param
    picked,          \* what the pick policy returned and what ran for it
    obj,             \* an application object: its own __dict__ and its classes
    scanned,         \* what _find_attrs_in_obj returned for it
    coll,            \* the list/dict structure handed to load_collection
    coll_meta,       \* the meta structure handed to load_collection
    places,          \* where the setters of each Attribute of the structure write
    stack,           \* the active calls, innermost last
    exc,             \* the exception in flight
    err,             \* the outcome of the last top-level call
    hist             \* bookkeeping about the calls made, for the properties

vars == << attributes, locked_keys, loaded_keys, pending_keys, mid_load_keys,
           loaded_configs, is_loading, p_loader, begin_count, app_attr,
           app_meta, reads, on_load, getters, configs, apply, picked, obj, scanned,
           coll, coll_meta, places, stack, exc, err, hist >>

loaderVars == << attributes, locked_keys, loaded_keys, pending_keys,
                 mid_load_keys, loaded_configs, is_loading >>
paramVars == << p_loader, begin_count >>
slotVars == << app_attr, app_meta >>
scanVars == << obj, scanned >>
paramProg == << reads, on_load, getters, configs, apply, picked, scanVars, places >>
collVars == << coll, coll_meta >>
progVars == << paramProg, collVars >>

\* The param objects of the program: those that have binding state.
Params == DOMAIN p_loader

\* _key_from_app_param: the identity pair (id(app), id(param)).
Keys == Apps \X Params

(* ------------------------------ helpers -------------------------------- *)
Range(s) == { s[i] : i \in 1..Len(s) }

\* A variant of list.remove / dict.pop that removes nothing.
WithoutNone(s, k) == s

RECURSIVE Without(_, _)
\* list.remove(k) / dict.pop(k): the sequence without its first k.
Without(s, k) ==
    IF s = << >> THEN << >>
    ELSE IF Head(s) = k THEN Tail(s)
    ELSE << Head(s) >> \o Without(Tail(s), k)

RECURSIVE WithoutAll(_, _)
WithoutAll(s, ks) ==
    IF s = << >> THEN << >>
    ELSE IF Head(s) \in ks THEN WithoutAll(Tail(s), ks)
    ELSE << Head(s) >> \o WithoutAll(Tail(s), ks)

RECURSIVE Flatten(_)
\* The steps of nested for loops, one after the other.
Flatten(ss) == IF ss = << >> THEN << >> ELSE Head(ss) \o Flatten(Tail(ss))

Front(s) == SubSeq(s, 1, Len(s) - 1)
NoDuplicates(s) == \A i, j \in 1..Len(s) : s[i] = s[j] => i = j
Last(s) == s[Len(s)]

Unset == [has |-> FALSE, cfgs |-> << >>]
Stored(cfgs) == [has |-> TRUE, cfgs |-> cfgs]

(* ------------------------------ errors --------------------------------- *)
\* An exception: its class, the place that raised it and its payload.
NoExc == [kind |-> "none", site |-> "none", info |-> << >>]

\* errors.py: `class UsageError(Exception): pass` -- the attributes the class
\* gives its instances besides those of Exception.
UsageErrorAttrs == {}

\* The attributes of a param object (param.__init__).
ParamAttrs == {"getters", "apply", "pick", "on_load", "app_name", "name",
               "_loader", "_begin_count"}

\* raise UsageError(...) at the given place
UsageError(site) == [kind |-> "UsageError", site |-> site, info |-> << >>]

\* An exception of the interpreter or of a collaborator.
Raised(kind, site) == [kind |-> kind, site |-> site, info |-> << >>]

\* err = UsageError(...); err.<attr> += payload; raise err
\* The augmented assignment reads err.<attr> first; an attribute the object
\* does not have raises AttributeError before the payload is evaluated.
UsageErrorWith(site, attr, payload) ==
    IF attr \in UsageErrorAttrs
    THEN [kind |-> "UsageError", site |-> site, info |-> payload]
    ELSE Raised("AttributeError", site)

(* ------------------------------- param --------------------------------- *)
\* The binding state of all params, passed through the operators below.
ParamState == [ldr : [Params -> Loaders \cup {None}], cnt : [Params -> Nat], exc : {NoExc}]

\* param.begin_load(loader); st.exc is set when it raises.
begin_load(st, p, l) ==
    IF st.ldr[p] # None /\ st.ldr[p] # l
    THEN [st EXCEPT !.exc =
            IF "loader" \in ParamAttrs
            THEN UsageError("begin_load")
            ELSE Raised("AttributeError", "begin_load")]
    ELSE [st EXCEPT !.ldr[p] = l, !.cnt[p] = @ + 1]

\* param._require_active_loader()
require_active_loader(st, p) ==
    IF st.ldr[p] = None
    THEN [st EXCEPT !.exc = UsageError("require_active_loader")]
    ELSE st

\* A variant of end_load that unbinds the param however often it was bound.
end_load_unbind(st, p) ==
    LET r == require_active_loader(st, p) IN
    IF r.exc # NoExc THEN r
    ELSE [r EXCEPT !.cnt[p] = @ - 1, !.ldr[p] = None]

\* param.end_load()
end_load(st, p) ==
    LET r == require_active_loader(st, p) IN
    IF r.exc # NoExc THEN r
    ELSE IF r.cnt[p] - 1 = 0
         THEN [r EXCEPT !.cnt[p] = 0, !.ldr[p] = None]
         ELSE [r EXCEPT !.cnt[p] = @ - 1]

RECURSIVE BeginAll(_, _, _)
\* for attr in attrs: attr.param.begin_load(self) -- stops at the first raise
BeginAll(st, ks, l) ==
    IF ks = << >> \/ st.exc # NoExc THEN st
    ELSE BeginAll(begin_load(st, ParamOf(Head(ks)), l), Tail(ks), l)

RECURSIVE EndAll(_, _)
\* for attr in attrs: attr.param.end_load() -- stops at the first raise
EndAll(st, ks) ==
    IF ks = << >> \/ st.exc # NoExc THEN st
    ELSE EndAll(end_load(st, ParamOf(Head(ks))), Tail(ks))

PState == [ldr |-> p_loader, cnt |-> begin_count, exc |-> NoExc]

(* ------------------------------ Loader --------------------------------- *)
RECURSIVE Register(_, _, _)
\* add_attributes, lines 213-222: register the attributes one by one; a
\* duplicate key raises and leaves the earlier ones of the call registered.
Register(attrs, pend, batch) ==
    IF batch = << >> THEN [attrs |-> attrs, pend |-> pend, exc |-> NoExc]
    ELSE IF Head(batch) \in Range(attrs)
    THEN [attrs |-> attrs, pend |-> pend,
          exc |-> UsageErrorWith("duplicate", "info", << >>)]
    ELSE Register(Append(attrs, Head(batch)), Append(pend, Head(batch)), Tail(batch))

\* A variant of add_attributes that does not queue what it registers.
add_attributes_unqueued(l, batch) ==
    LET reg == Register(attributes[l], pending_keys[l], batch)
        bnd == IF reg.exc = NoExc /\ is_loading[l]
               THEN BeginAll(PState, batch, l)
               ELSE [PState EXCEPT !.exc = reg.exc]
    IN  [attrs |-> reg.attrs,
         pend  |-> pending_keys[l],
         mid   |-> IF reg.exc = NoExc /\ is_loading[l] /\ bnd.exc = NoExc
                   THEN mid_load_keys[l] \cup Range(batch)
                   ELSE mid_load_keys[l],
         st    |-> bnd]

\* Loader.add_attributes(attrs) on loader l, from the current state.
add_attributes(l, batch) ==
    LET reg == Register(attributes[l], pending_keys[l], batch)
        bnd == IF reg.exc = NoExc /\ is_loading[l]
               THEN BeginAll(PState, batch, l)
               ELSE [PState EXCEPT !.exc = reg.exc]
    IN  [attrs |-> reg.attrs,
         pend  |-> reg.pend,
         mid   |-> IF reg.exc = NoExc /\ is_loading[l] /\ bnd.exc = NoExc
                   THEN mid_load_keys[l] \cup Range(batch)
                   ELSE mid_load_keys[l],
         st    |-> bnd]

RECURSIVE Forget(_, _, _)
\* _reset_attributes, lines 320-322: pop each mid-load key and unbind its param.
Forget(attrs, st, order) ==
    IF order = << >> \/ st.exc # NoExc THEN [attrs |-> attrs, st |-> st]
    ELSE IF Head(order) \notin Range(attrs)
    THEN [attrs |-> attrs, st |-> [st EXCEPT !.exc =
            Raised("KeyError", "reset")]]
    ELSE Forget(Without(attrs, Head(order)), end_load(st, ParamOf(Head(order))), Tail(order))

\* A variant of the reset that leaves the stored values in place.
DelSlotsKeep(slots, ks) == slots

\* _reset_attributes, lines 315-318: the deleters of the loaded attributes.
DelSlots(slots, ks) == [k \in Keys |-> IF k \in ks THEN Unset ELSE slots[k]]

\* The orders in which a Python set of keys may be iterated.
Orders(S) == { s \in [1..Cardinality(S) -> S] : Range(s) = S }

\* Loader._reset_attributes() on loader l; order is the iteration order of
\* the set of mid-load keys.
reset_attributes(l, order) ==
    IF locked_keys[l] # << >>
    THEN [attrs |-> attributes[l], loaded |-> loaded_keys[l], pend |-> pending_keys[l],
          mid |-> mid_load_keys[l], st |-> PState, val |-> app_attr, meta |-> app_meta,
          exc |-> Raised("AssertionError", "reset")]
    ELSE IF \E k \in loaded_keys[l] : k \notin Range(attributes[l]) \/ ~app_attr[k].has
    THEN [attrs |-> attributes[l], loaded |-> loaded_keys[l], pend |-> pending_keys[l],
          mid |-> mid_load_keys[l], st |-> PState, val |-> app_attr, meta |-> app_meta,
          exc |-> Raised("KeyError", "reset")]
    ELSE
    LET val  == DelSlots(app_attr, loaded_keys[l])
        meta == DelSlots(app_meta, loaded_keys[l])
        f    == Forget(attributes[l], PState, order)
    IN  IF f.st.exc # NoExc
        THEN [attrs |-> f.attrs, loaded |-> loaded_keys[l], pend |-> pending_keys[l],
              mid |-> mid_load_keys[l], st |-> [f.st EXCEPT !.exc = NoExc],
              val |-> val, meta |-> meta, exc |-> f.st.exc]
        ELSE [attrs |-> f.attrs, loaded |-> {}, pend |-> f.attrs,
              mid |-> {}, st |-> f.st, val |-> val, meta |-> meta, exc |-> NoExc]

(* ------------------------------ frames --------------------------------- *)
NoKey == << 0, 0 >>

LoadFrame(l, pc, i) ==
    [op |-> "load", l |-> l, pc |-> pc, i |-> i, k |-> NoKey, todo |-> {}, cfgs |-> << >>]
ConfigFrame(l, i, n) ==
    [op |-> "config", l |-> l, pc |-> "load", i |-> i, k |-> NoKey, todo |-> 1..n, cfgs |-> << >>]
ResolveFrame(l, k, todo, cfgs) ==
    [op |-> "resolve", l |-> l, pc |-> "getters", i |-> 0, k |-> k, todo |-> todo, cfgs |-> cfgs]

Top == stack[Len(stack)]
Running == stack # << >> /\ exc = NoExc
Replace(stk, f) == [stk EXCEPT ![Len(stk)] = f]
Active(l) == \E j \in 1..Len(stack) : stack[j].op = "load" /\ stack[j].l = l

(* --------------------------- the environment --------------------------- *)
\* What an on_load hook may hand to add_attributes: << >> is a param without
\* a hook (or a hook that registers nothing).
Batches == UNION { [1..n -> Keys] : n \in 0..MaxBatch }

\* The getters of a param read at most MaxReads params of their own app.
ReadGraphs == { g \in [Params -> SUBSET Params] :
                  \A p \in Params : Cardinality(g[p]) <= MaxReads }

\* The attribute lists a Loader is constructed with: the params of one or
\* more apps, each app's params in declaration order.
RECURSIVE SortedSeq(_)
SortedSeq(S) ==
    IF S = {} THEN << >>
    ELSE LET k == CHOOSE x \in S : \A y \in S :
                    x[1] < y[1] \/ (x[1] = y[1] /\ x[2] <= y[2])
         IN << k >> \o SortedSeq(S \ {k})

(* ------------------------------ history -------------------------------- *)
\* calls[l]  the configs whose load() the current load() of l has called
\* nres[k]   the resolutions of k (calls of param.load_value) in this phase
\* ncalls    the number of Loader.load() calls made so far
\* nadds     the number of add_attributes calls the application has made
\* done[l]   how the latest load() of l stands
\* bound[l]  the params the latest load() of l has bound
\* mid[l]    the keys add_attributes has registered during a load() of l
\*           since the last reset of l
\* init[l]   the keys registered with l outside of load()
\* wiped[l]  what the latest reset of the running load() did with loaded keys
\* op        the latest operation of the environment
\* ngets     the number of getitem calls made so far
\* got       the key of the latest getitem call and what it returned
\* nask      the number of reads of another app's attribute by a getter
\* asked     the key of the latest such read
\* prev[l]   how the load() of l before the latest one ended
\* What a reset of l is about to do with the keys that are loaded.
Wiped(l) ==
    {"kept" : k \in loaded_keys[l] \ mid_load_keys[l]}
        \cup {"forgotten" : k \in loaded_keys[l] \cap mid_load_keys[l]}

Hist0 == [calls  |-> [l \in Loaders |-> << >>],
          nres   |-> [k \in Keys |-> 0],
          ncalls |-> 0,
          nadds  |-> 0,
          done   |-> [l \in Loaders |-> "never"],
          bound  |-> [l \in Loaders |-> {}],
          mid    |-> [l \in Loaders |-> {}],
          init   |-> [l \in Loaders |-> {}],
          wiped  |-> [l \in Loaders |-> {}],
          op     |-> "init",
          ngets  |-> 0,
          got    |-> << >>,
          nask   |-> 0,
          asked  |-> NoKey,
          prev   |-> [l \in Loaders |-> "never"]]

Gained(st) == { p \in Params : st.cnt[p] > begin_count[p] }

\* A variant of the resolution that is handed every config of the loader.
ConfigsArgAll(l) == ConfigsOf(l)

(* ------------------------- attribute resolution ------------------------ *)
\* line 300: the configs handed to param.load_value.
ConfigsArg(l) == loaded_configs[l]

\* A variant of load_attribute_value's finally clause that pops nothing.
PopLockedNever(l) == locked_keys

\* lines 301-302, finally: self._locked_keys.pop()
PopLocked(l) == [locked_keys EXCEPT ![l] = Front(@)]

\* A variant of the check of line 287 that looks for the param alone.
IsLockedByParam(l, k) == \E j \in Range(locked_keys[l]) : ParamOf(j) = ParamOf(k)

\* line 287: k in self._locked_keys, k being the pair (id(app), id(param)).
IsLocked(l, k) == k \in Range(locked_keys[l])

\* Loader.load_attribute_value(app, param) on loader l up to the call of
\* param.load_value's body; stk is the caller's stack.
load_attribute_value(l, k, stk, h) ==
    LET p == ParamOf(k)
        e == IF k \notin Range(attributes[l])
             THEN UsageErrorWith("unknown", "info", << >>)
             ELSE IF k \in loaded_keys[l]
             THEN UsageErrorWith("loaded", "info", << >>)
             ELSE IF k \notin Range(pending_keys[l])
             THEN Raised("AssertionError", "pending")
             ELSE IF IsLocked(l, k)
             THEN UsageErrorWith("circular", "info", Append(locked_keys[l], k))
             ELSE require_active_loader(PState, p).exc
    IN  IF e # NoExc
        THEN /\ exc' = e
             /\ stack' = stk
             /\ hist' = h
             /\ UNCHANGED << loaderVars, paramVars, slotVars, progVars, err >>
        ELSE /\ locked_keys' = [locked_keys EXCEPT ![l] = Append(@, k)]
             /\ stack' = Append(stk, ResolveFrame(l, k, reads[p], ConfigsArg(l)))
             /\ hist' = [h EXCEPT !.nres[k] = @ + 1]
             /\ UNCHANGED << attributes, loaded_keys, pending_keys, mid_load_keys,
                             loaded_configs, is_loading, paramVars, slotVars,
                             progVars, exc, err >>

\* A variant of reading attribute k in which the param's __get__ runs even
\* when the instance has a value of its own (a data descriptor).
ReadAttrThroughParam(k, stk, h) ==
    IF p_loader[ParamOf(k)] = None
    THEN /\ exc' = UsageErrorWith("__get__", "blame", << >>)
         /\ stack' = stk
         /\ hist' = h
         /\ UNCHANGED << loaderVars, paramVars, slotVars, progVars, err >>
    ELSE load_attribute_value(p_loader[ParamOf(k)], k, stk, h)

\* Reading attribute k of its app: the instance's own slot shadows the param
\* (a non-data descriptor); otherwise param.__get__ and param.get_value.
ReadAttr(k, stk, h) ==
    IF app_attr[k].has
    THEN /\ stack' = stk
         /\ hist' = h
         /\ UNCHANGED << loaderVars, paramVars, slotVars, progVars, exc, err >>
    ELSE IF p_loader[ParamOf(k)] = None
    THEN /\ exc' = UsageErrorWith("__get__", "blame", << >>)
         /\ stack' = stk
         /\ hist' = h
         /\ UNCHANGED << loaderVars, paramVars, slotVars, progVars, err >>
    ELSE load_attribute_value(p_loader[ParamOf(k)], k, stk, h)

(* ----------------------------- collections ----------------------------- *)
\* An item of a list/dict structure: a param object, any other value, or a
\* nested list or dict; after a load a slot may hold a resolved value (named
\* by the configs it was computed with), a meta slot its provenance or None.
ParamItem(p) == [t |-> "param", p |-> p, v |-> << >>, items |-> << >>]
PlainItem(v) == [t |-> "plain", p |-> 0, v |-> << v >>, items |-> << >>]
ValueItem(cfgs) == [t |-> "value", p |-> 0, v |-> cfgs, items |-> << >>]
MetaItem(cfgs) == [t |-> "meta", p |-> 0, v |-> cfgs, items |-> << >>]
NoneItem == [t |-> "None", p |-> 0, v |-> << >>, items |-> << >>]
Container(kind, items) == [t |-> kind, p |-> 0, v |-> << >>, items |-> items]
IsContainer(item) == item.t \in {"list", "dict"}

\* No structure was handed over (also: load_collection without meta).
NoColl == [t |-> "absent", p |-> 0, v |-> << >>, items |-> << >>]

RECURSIVE ItemAt(_, _)
\* collection[key] along a path of keys; a list's keys are its indices, a
\* dict's keys are named by their position in the dict.
ItemAt(c, path) ==
    IF path = << >> THEN c ELSE ItemAt(c.items[Head(path)], Tail(path))

RECURSIVE SetItemAt(_, _, _)
\* setitem(collection, key, item) on the container the path leads to; the
\* containers are shared objects, so the write shows from the root.
SetItemAt(c, path, item) ==
    IF path = << >> THEN item
    ELSE [c EXCEPT !.items[Head(path)] = SetItemAt(@, Tail(path), item)]

RECURSIVE meta_from_collection(_)
\* meta.py: a structure of the same shape with None in every leaf.
meta_from_collection(c) ==
    IF IsContainer(c)
    THEN Container(c.t, [i \in 1..Len(c.items) |-> meta_from_collection(c.items[i])])
    ELSE NoneItem

\* A variant of the search that does not descend into nested containers.
iter_attrs_shallow(item, path) ==
    IF item.t = "param" THEN << [param |-> item.p, path |-> path] >>
    ELSE IF IsContainer(item) /\ path = << >>
    THEN Flatten([i \in 1..Len(item.items) |->
                   IF item.items[i].t = "param"
                   THEN << [param |-> item.items[i].p, path |-> << i >>] >>
                   ELSE << >>])
    ELSE << >>

RECURSIVE iter_attrs_in_collection(_, _)
\* _iter_attrs_in_collection: an Attribute for a param, whose setters write
\* the slot it was found in; the search goes on inside lists and dicts.
iter_attrs_in_collection(item, path) ==
    IF item.t = "param" THEN << [param |-> item.p, path |-> path] >>
    ELSE IF IsContainer(item)
    THEN Flatten([i \in 1..Len(item.items) |->
                   iter_attrs_in_collection(item.items[i], Append(path, i))])
    ELSE << >>

\* _find_attrs_in_collection(app, meta); the app is app 1.
find_attrs_in_collection(app) == iter_attrs_in_collection(app, << >>)

\* The keys of the attributes found, and where each one's setters write.
AttrKeys(found) == [i \in 1..Len(found) |-> << 1, found[i].param >>]
AttrPlaces(found) ==
    [k \in Range(AttrKeys(found)) |->
        found[CHOOSE i \in 1..Len(found) : found[i].param = k[2]].path]

\* attr.set_attr(value), attr.set_meta(meta) for an attribute of the structure:
\* partial(setitem, collection, key); do_nothing without a meta structure.
set_attr(c, k, cfgs) ==
    IF k \in DOMAIN places THEN SetItemAt(c, places[k], ValueItem(cfgs)) ELSE c
set_meta(m, k, cfgs) ==
    IF k \in DOMAIN places /\ m # NoColl THEN SetItemAt(m, places[k], MetaItem(cfgs)) ELSE m

RECURSIVE del_attrs_at(_, _, _)
del_attrs_at(c, path, ks) ==
    IF IsContainer(c)
    THEN [c EXCEPT !.items = [i \in 1..Len(c.items) |->
                                del_attrs_at(c.items[i], Append(path, i), ks)]]
    ELSE IF \E k \in ks : k \in DOMAIN places /\ places[k] = path
    THEN ParamItem(ParamOf(CHOOSE k \in ks : k \in DOMAIN places /\ places[k] = path))
    ELSE c

\* attr.del_attr() for each of the keys: partial(setitem, collection, key,
\* app_item) puts the param object back into its slot.
del_attrs(c, ks) == IF c = NoColl THEN c ELSE del_attrs_at(c, << >>, ks)

RECURSIVE del_metas_at(_, _, _)
del_metas_at(m, path, ks) ==
    IF IsContainer(m)
    THEN [m EXCEPT !.items = [i \in 1..Len(m.items) |->
                                del_metas_at(m.items[i], Append(path, i), ks)]]
    ELSE IF \E k \in ks : k \in DOMAIN places /\ places[k] = path
    THEN NoneItem
    ELSE m

\* attr.del_meta() for each of the keys: partial(setitem, meta_collection,
\* key, None); nothing without a meta structure.
del_metas(m, ks) == IF m = NoColl THEN m ELSE del_metas_at(m, << >>, ks)

\* The keys whose deleters a reset has called: those it found loaded.
Deleted(val) == { k \in Keys : app_attr[k].has /\ ~val[k].has }

\* A getter or a config calls byoc.getitem(app, key) on the structure.
\* Line 315 calls get_value on the class `param` with the app as its only
\* argument, so the call lacks the argument `app`.
getitem(key) ==
    /\ Running /\ Top.op \in {"resolve", "config"}
    /\ IsContainer(coll) /\ key \in 1..Len(coll.items)
    /\ hist.ngets < MaxGets
    /\ LET value == ItemAt(coll, << key >>) IN
       IF value.t = "param"
       THEN /\ exc' = Raised("TypeError", "getitem")
            /\ hist' = [hist EXCEPT !.ngets = @ + 1, !.got = << key >>]
       ELSE /\ exc' = exc
            /\ hist' = [hist EXCEPT !.ngets = @ + 1, !.got = << key, value >>]
    /\ UNCHANGED << loaderVars, paramVars, slotVars, progVars, stack, err >>

(* ------------------------------ Loader.load ---------------------------- *)
\* A variant of line 174 that keeps the configs of the previous load().
ClearConfigsKeep(cfgs) == cfgs

\* line 174: self._loaded_configs = []
ClearConfigs(cfgs) == << >>

\* load(), lines 163-174: mark the loader as loading, bind every registered
\* param and clear the loaded-config list.  A begin_load that raises leaves
\* the frame to the `finally` clause.
EnterLoad(l, stk) ==
    LET st == BeginAll(PState, attributes[l], l) IN
    /\ is_loading' = [is_loading EXCEPT ![l] = TRUE]
    /\ p_loader' = st.ldr
    /\ begin_count' = st.cnt
    /\ exc' = st.exc
    /\ loaded_configs' = IF st.exc = NoExc
                         THEN [loaded_configs EXCEPT ![l] = ClearConfigs(@)]
                         ELSE loaded_configs
    /\ stack' = Append(stk, LoadFrame(l, "configs", 1))
    /\ hist' = [hist EXCEPT !.calls[l] = << >>,
                            !.ncalls = @ + 1,
                            !.done[l] = "running",
                            !.prev[l] = hist.done[l],
                            !.bound[l] = Gained(st),
                            !.op = "load"]
    /\ UNCHANGED << attributes, locked_keys, loaded_keys, pending_keys,
                    mid_load_keys, slotVars, progVars, err >>

\* The application calls loader.load().
CallLoad(l) ==
    /\ stack = << >> /\ exc = NoExc
    /\ hist.ncalls < MaxCalls
    /\ EnterLoad(l, stack)

\* lines 176-178: the next config: reset the attributes, then config.load().
ConfigStart ==
    /\ Running /\ Top.op = "load" /\ Top.pc = "configs"
    /\ Top.i <= Len(ConfigsOf(Top.l))
    /\ \E order \in Orders(mid_load_keys[Top.l]) :
        LET l == Top.l
            r == reset_attributes(l, order)
        IN  /\ attributes' = [attributes EXCEPT ![l] = r.attrs]
            /\ loaded_keys' = [loaded_keys EXCEPT ![l] = r.loaded]
            /\ pending_keys' = [pending_keys EXCEPT ![l] = r.pend]
            /\ mid_load_keys' = [mid_load_keys EXCEPT ![l] = r.mid]
            /\ p_loader' = r.st.ldr
            /\ begin_count' = r.st.cnt
            /\ app_attr' = r.val
            /\ app_meta' = r.meta
            /\ coll' = del_attrs(coll, Deleted(r.val))
            /\ coll_meta' = del_metas(coll_meta, Deleted(r.val))
            /\ exc' = r.exc
            /\ stack' = IF r.exc = NoExc
                        THEN Append(stack, ConfigFrame(l, Top.i, 0))
                        ELSE stack
            /\ hist' = IF r.exc = NoExc
                       THEN [hist EXCEPT !.calls[l] = Append(@, ConfigsOf(l)[Top.i]),
                                         !.nres = [k \in Keys |-> 0],
                                         !.mid[l] = {},
                                         !.wiped[l] = Wiped(l)]
                       ELSE hist
            /\ UNCHANGED << locked_keys, loaded_configs, is_loading, paramProg, err >>

\* config.load() reads an attribute of the application.
ConfigRead(k) ==
    /\ Running /\ Top.op = "config"
    /\ Cardinality(Top.todo) < MaxCfgReads
    /\ ReadAttr(k, Replace(stack, ConfigFrame(Top.l, Top.i, Cardinality(Top.todo) + 1)), hist)

\* A variant of the loop over the configs that skips every other one.
NextConfigSkip(i) == i + 2

\* line 176: the loop goes on to the config after the one at position i.
NextConfig(i) == i + 1

\* config.load() returns; line 179 appends the config to the loaded ones.
ConfigReturn ==
    /\ Running /\ Top.op = "config"
    /\ LET l == Top.l
           stk == Front(stack)
       IN  /\ loaded_configs' = [loaded_configs EXCEPT ![l] = Append(@, ConfigsOf(l)[Top.i])]
           /\ stack' = Replace(stk, LoadFrame(l, "configs", NextConfig(Top.i)))
    /\ UNCHANGED << attributes, locked_keys, loaded_keys, pending_keys, mid_load_keys,
                    is_loading, paramVars, slotVars, progVars, exc, err, hist >>

\* config.load() raises an error of its own (an unreadable file, bad arguments).
ConfigRaise ==
    /\ Running /\ Top.op = "config"
    /\ exc' = Raised("ConfigError", "config")
    /\ UNCHANGED << loaderVars, paramVars, slotVars, progVars, stack, err, hist >>

\* line 181: the reset before the final pass.
FinalReset ==
    /\ Running /\ Top.op = "load" /\ Top.pc = "configs"
    /\ Top.i > Len(ConfigsOf(Top.l))
    /\ \E order \in Orders(mid_load_keys[Top.l]) :
        LET l == Top.l
            r == reset_attributes(l, order)
        IN  /\ attributes' = [attributes EXCEPT ![l] = r.attrs]
            /\ loaded_keys' = [loaded_keys EXCEPT ![l] = r.loaded]
            /\ pending_keys' = [pending_keys EXCEPT ![l] = r.pend]
            /\ mid_load_keys' = [mid_load_keys EXCEPT ![l] = r.mid]
            /\ p_loader' = r.st.ldr
            /\ begin_count' = r.st.cnt
            /\ app_attr' = r.val
            /\ app_meta' = r.meta
            /\ coll' = del_attrs(coll, Deleted(r.val))
            /\ coll_meta' = del_metas(coll_meta, Deleted(r.val))
            /\ exc' = r.exc
            /\ stack' = IF r.exc = NoExc
                        THEN Replace(stack, LoadFrame(l, "final", Top.i))
                        ELSE stack
            /\ hist' = IF r.exc = NoExc
                       THEN [hist EXCEPT !.nres = [k \in Keys |-> 0], !.mid[l] = {},
                                         !.wiped[l] = Wiped(l)]
                       ELSE hist
            /\ UNCHANGED << locked_keys, loaded_configs, is_loading, paramProg, err >>

\* A variant of the loop that takes the key registered last.
NextPendingLast(pend) == Last(pend)

\* line 184: k = self._pending_keys[0]
NextPending(pend) == Head(pend)

\* lines 183-186: resolve the first pending attribute.
FinalNext ==
    /\ Running /\ Top.op = "load" /\ Top.pc = "final"
    /\ pending_keys[Top.l] # << >>
    /\ load_attribute_value(Top.l, NextPending(pending_keys[Top.l]), stack, hist)

\* lines 183, 188-190: nothing is pending; unbind every param and return.
LoadReturn ==
    /\ Running /\ Top.op = "load" /\ Top.pc = "final"
    /\ pending_keys[Top.l] = << >>
    /\ LET l == Top.l
           st == EndAll(PState, attributes[l])
       IN  /\ p_loader' = st.ldr
           /\ begin_count' = st.cnt
           /\ exc' = st.exc
           /\ stack' = Front(stack)
           /\ hist' = [hist EXCEPT !.done[l] = IF st.exc = NoExc THEN "returned" ELSE "raised",
                                   !.wiped[l] = {}]
           /\ err' = IF Len(stack) = 1 /\ st.exc = NoExc THEN NoExc ELSE err
    /\ UNCHANGED << loaderVars, slotVars, progVars >>

(* ------------------------------- getters ------------------------------- *)
\* A getter of the param being resolved reads param q of the same app.
GetterRead(q) ==
    /\ Running /\ Top.op = "resolve"
    /\ q \in Top.todo
    /\ ReadAttr(<< AppOf(Top.k), q >>, Replace(stack, [Top EXCEPT !.todo = @ \ {q}]), hist)

\* A getter of the param being resolved reads attribute k of another app
\* (a parent, a child) that may share the class, and so the params.
GetterReadApp(k) ==
    /\ Running /\ Top.op = "resolve"
    /\ AppOf(k) # AppOf(Top.k)
    /\ hist.nask < MaxAsks
    /\ ReadAttr(k, stack, [hist EXCEPT !.nask = @ + 1, !.asked = k])

\* A getter, an apply function or the pick policy raises (NoValueFound when
\* no getter yields a value).
GetterRaise ==
    /\ Running /\ Top.op = "resolve"
    /\ exc' = Raised("NoValueFound", "pick")
    /\ UNCHANGED << loaderVars, paramVars, slotVars, progVars, stack, err, hist >>

\* A getter builds another object and loads it with a loader of its own.
NestedLoad(l) ==
    /\ Running /\ Top.op = "resolve"
    /\ ~Active(l)
    /\ hist.ncalls < MaxCalls
    /\ EnterLoad(l, stack)

\* A getter calls loader.load_attribute_value(app, param) itself, on any
\* loader it has a reference to.
DirectResolve(l, k) ==
    /\ Running /\ Top.op = "resolve"
    /\ load_attribute_value(l, k, stack, hist)

\* param.load_value from the pick on (lines 284-296), then the rest of
\* load_attribute_value (lines 301-310).  The on_load hook runs inside
\* load_value, before the value is stored and while the key is still locked;
\* batch is what the hook hands to add_attributes of the param's loader.
ResolveReturn(batch) ==
    /\ Running /\ Top.op = "resolve"
    /\ Top.todo = {}
    /\ batch = << >> \/ ParamOf(Top.k) \in on_load
    /\ LET l  == Top.l
           k  == Top.k
           hl == p_loader[ParamOf(k)]
           hooked == batch # << >>
           a  == IF hooked /\ hl # None
                 THEN add_attributes(hl, batch)
                 ELSE [attrs |-> << >>, pend |-> << >>, mid |-> {},
                       st |-> [PState EXCEPT !.exc =
                                 IF hooked
                                 THEN Raised("AttributeError", "on_load")
                                 ELSE NoExc]]
           reg == hooked /\ hl # None
           attrs1 == IF reg THEN [attributes EXCEPT ![hl] = a.attrs] ELSE attributes
           pend1  == IF reg THEN [pending_keys EXCEPT ![hl] = a.pend] ELSE pending_keys
           mid1   == IF reg THEN [mid_load_keys EXCEPT ![hl] = a.mid] ELSE mid_load_keys
           h1     == IF reg
                     THEN [hist EXCEPT !.mid[hl] = @ \cup (Range(a.attrs) \ Range(attributes[hl])),
                                       !.bound[hl] = @ \cup Gained(a.st)]
                     ELSE hist
       IN  /\ attributes' = attrs1
           /\ mid_load_keys' = mid1
           /\ p_loader' = a.st.ldr
           /\ begin_count' = a.st.cnt
           /\ locked_keys' = PopLocked(l)
           /\ stack' = Front(stack)
           /\ exc' = a.st.exc
           /\ hist' = h1
           /\ IF a.st.exc # NoExc
              THEN /\ pending_keys' = pend1
                   /\ UNCHANGED << loaded_keys, slotVars, collVars, err >>
              ELSE /\ app_attr' = [app_attr EXCEPT ![k] = Stored(Top.cfgs)]
                   /\ app_meta' = [app_meta EXCEPT ![k] = Stored(Top.cfgs)]
                   /\ coll' = set_attr(coll, k, Top.cfgs)
                   /\ coll_meta' = set_meta(coll_meta, k, Top.cfgs)
                   /\ loaded_keys' = [loaded_keys EXCEPT ![l] = @ \cup {k}]
                   /\ pending_keys' = [pend1 EXCEPT ![l] = Without(@, k)]
                   /\ err' = IF Len(stack) = 1 THEN NoExc ELSE err
    /\ UNCHANGED << loaded_configs, is_loading, paramProg >>

(* ----------------------------- exceptions ------------------------------ *)
\* The exception in flight leaves the innermost call: line 302 pops the
\* locked key, lines 188-190 unbind the params of the loader.
Unwind ==
    /\ exc # NoExc /\ stack # << >>
    /\ stack' = Front(stack)
    /\ CASE Top.op = "resolve" ->
              /\ locked_keys' = PopLocked(Top.l)
              /\ UNCHANGED << paramVars, exc, hist >>
         [] Top.op = "config" ->
              UNCHANGED << locked_keys, paramVars, exc, hist >>
         [] Top.op = "load" ->
              LET st == EndAll(PState, attributes[Top.l]) IN
              /\ p_loader' = st.ldr
              /\ begin_count' = st.cnt
              /\ exc' = IF st.exc # NoExc THEN st.exc ELSE exc
              /\ hist' = [hist EXCEPT !.done[Top.l] = "raised", !.wiped[Top.l] = {}]
              /\ UNCHANGED locked_keys
    /\ UNCHANGED << attributes, loaded_keys, pending_keys, mid_load_keys,
                    loaded_configs, is_loading, slotVars, progVars, err >>

\* The exception reaches the application.
Escape ==
    /\ exc # NoExc /\ stack = << >>
    /\ err' = exc
    /\ exc' = NoExc
    /\ UNCHANGED << loaderVars, paramVars, slotVars, progVars, stack, hist >>

(* --------------------------- the application -------------------------- *)
\* The application calls loader.add_attributes(batch) outside of load().
TopAdd(l, batch) ==
    /\ stack = << >> /\ exc = NoExc
    /\ hist.nadds < MaxAdds
    /\ batch # << >>
    /\ LET a == add_attributes(l, batch) IN
       /\ attributes' = [attributes EXCEPT ![l] = a.attrs]
       /\ pending_keys' = [pending_keys EXCEPT ![l] = a.pend]
       /\ mid_load_keys' = [mid_load_keys EXCEPT ![l] = a.mid]
       /\ p_loader' = a.st.ldr
       /\ begin_count' = a.st.cnt
       /\ err' = a.st.exc
    /\ hist' = [hist EXCEPT !.op = "add", !.nadds = @ + 1,
                            !.init[l] = @ \cup (Range(attributes'[l]) \ Range(attributes[l]))]
    /\ UNCHANGED << locked_keys, loaded_keys, loaded_configs, is_loading,
                    slotVars, progVars, stack, exc >>

\* The application reads attribute k of an app object that no loader is
\* working on.
TopRead(k) ==
    /\ stack = << >> /\ exc = NoExc
    /\ app_attr[k].has \/ p_loader[ParamOf(k)] = None
    /\ ReadAttr(k, stack, [hist EXCEPT !.op = "__get__"])

\* The application calls get_value, load_value or end_load on a param that
\* no loader is using.
TopCall(p, m) ==
    /\ stack = << >> /\ exc = NoExc
    /\ p_loader[p] = None
    /\ m \in {"get_value", "load_value", "end_load"}
    /\ LET st == IF m = "end_load" THEN end_load(PState, p)
                 ELSE require_active_loader(PState, p)
       IN  /\ p_loader' = st.ldr
           /\ begin_count' = st.cnt
           /\ exc' = st.exc
    /\ hist' = [hist EXCEPT !.op = m]
    /\ UNCHANGED << loaderVars, slotVars, progVars, stack, err >>

(* ------------------------ getters and candidates ----------------------- *)
\* The values the sources hold, and the config classes.  Class c + 1 is a
\* subclass of class c, so its instances are instances of class c as well.
Vals == 1..NVals
Classes == 1..NClasses

\* getters.py: Key(config_cls, key), Func(func) / Method(method), Value(value).
KeyGetter(c) == [type |-> "Key", cls |-> c, val |-> 0]
FuncGetter(v) == [type |-> "Func", cls |-> 0, val |-> v]
ValueGetter(v) == [type |-> "Value", cls |-> 0, val |-> v]
Getters == { KeyGetter(c) : c \in Classes } \cup { FuncGetter(v) : v \in Vals }
               \cup { ValueGetter(v) : v \in Vals }

\* isinstance(config, config_cls)
IsInstance(config, cls) == config.cls >= cls

\* One step of a running generator: a piece of code that is executed (a
\* finder lookup, a callable, an apply function) or a candidate handed to the
\* consumer.  `at` is the place << getter, config, finder, value >> the step
\* belongs to; a candidate's provenance names the place it comes from.
Ran(ev, at) == [ev |-> ev, at |-> at, val |-> 0]
Yield(at, v) == [ev |-> "yield", at |-> at, val |-> v]

\* The functions a pipeline may hold: add_app takes the value and the app,
\* by_meta the value and the provenance, and each gives a new value.
ApplyFuncs == {"add_app", "by_meta"}

\* f(value, app=app, meta=meta)
Call(f, value, app, meta) ==
    CASE f = "add_app" -> value + app
      [] f = "by_meta" -> 10 * value + meta[2]

RECURSIVE Pipeline(_, _, _, _)
\* Pipeline(funcs)(value, app=app, meta=meta): the functions one after the
\* other, each on the result of the one before.
Pipeline(funcs, value, app, meta) ==
    IF funcs = << >> THEN value
    ELSE Pipeline(Tail(funcs), Call(Head(funcs), value, app, meta), app, meta)

\* apply=identity, the default of Key and of param.
NoApply == [key |-> [g \in 1..MaxGetters |-> << >>], param |-> << >>]

\* The application a param is resolved for.
PickApp == 1

\* A variant of Key.iter_values that yields what the finder found.
FinderStepsRaw(g, c, f, found) ==
    << Ran("lookup", << g, c, f, 0 >>) >> \o
    Flatten([i \in 1..Len(found) |->
               << Ran("apply", << g, c, f, i >>), Yield(<< g, c, f, i >>, found[i]) >>])

\* Key.iter_values, line 78-79: the values a finder yields for the key, each
\* passed through the getter's apply.
FinderSteps(g, c, f, found) ==
    << Ran("lookup", << g, c, f, 0 >>) >> \o
    Flatten([i \in 1..Len(found) |->
               << Ran("apply", << g, c, f, i >>),
                  Yield(<< g, c, f, i >>,
                        Pipeline(apply.key[g], found[i], PickApp, << g, c, f, i >>)) >>])

\* A variant of Key.iter_values that goes through the configs backwards.
Key_iter_values_reversed(getter, g, cfgs) ==
    Flatten([n \in 1..Len(cfgs) |->
               LET c == Len(cfgs) + 1 - n IN
               IF ~IsInstance(cfgs[c], getter.cls) THEN << >>
               ELSE << Ran("iter_finders", << g, c, 0, 0 >>) >> \o
                    Flatten([f \in 1..Len(cfgs[c].finders) |->
                               FinderSteps(g, c, f, cfgs[c].finders[f])])])

\* Key.iter_values, lines 73-77: the configs in the order given, skipping
\* those of another class; the finders of each in iter_finders() order.
Key_iter_values(getter, g, cfgs) ==
    Flatten([c \in 1..Len(cfgs) |->
               IF ~IsInstance(cfgs[c], getter.cls) THEN << >>
               ELSE << Ran("iter_finders", << g, c, 0, 0 >>) >> \o
                    Flatten([f \in 1..Len(cfgs[c].finders) |->
                               FinderSteps(g, c, f, cfgs[c].finders[f])])])

\* A variant of Func.iter_values that calls the callable for the value and
\* again when it yields.
Func_iter_values_twice(getter, g) ==
    << Ran("call", << g, 0, 0, 0 >>), Ran("call", << g, 0, 0, 0 >>),
       Yield(<< g, 0, 0, 0 >>, getter.val) >>

\* Func.iter_values / Method.iter_values: call the callable, yield its result.
Func_iter_values(getter, g) ==
    << Ran("call", << g, 0, 0, 0 >>), Yield(<< g, 0, 0, 0 >>, getter.val) >>

\* Value.iter_values
Value_iter_values(getter, g) == << Yield(<< g, 0, 0, 0 >>, getter.val) >>

iter_values(getter, g, cfgs) ==
    CASE getter.type = "Key" -> Key_iter_values(getter, g, cfgs)
      [] getter.type = "Func" -> Func_iter_values(getter, g)
      [] getter.type = "Value" -> Value_iter_values(getter, g)

RECURSIVE WithApply(_)
\* param._iter_values, lines 300-302: each candidate of a getter goes through
\* the param's apply (the identity by default) before it is yielded with the
\* provenance it came with.
WithApply(steps) ==
    IF steps = << >> THEN << >>
    ELSE IF Head(steps).ev = "yield"
    THEN << Ran("param_apply", Head(steps).at),
            Yield(Head(steps).at,
                  Pipeline(apply.param, Head(steps).val, PickApp, Head(steps).at)) >>
         \o WithApply(Tail(steps))
    ELSE << Head(steps) >> \o WithApply(Tail(steps))

\* param._iter_values: the getters in declaration order.
param_iter_values(gs, cfgs) ==
    Flatten([g \in 1..Len(gs) |-> WithApply(iter_values(gs[g], g, cfgs))])

RECURSIVE Pull(_, _)
\* next() called n times on a generator: what runs, up to the n-th yield.
Pull(steps, n) ==
    IF steps = << >> \/ n = 0 THEN << >>
    ELSE << Head(steps) >> \o
         Pull(Tail(steps), IF Head(steps).ev = "yield" THEN n - 1 ELSE n)

\* Iterating a generator to its end.
Exhaust(steps) == steps

IsYield(s) == s.ev = "yield"
Yields(steps) == SelectSeq(steps, IsYield)

(* -------------------------------- pick --------------------------------- *)
\* ValuesIter.meta: None until the pick policy sets it.
MetaNone == [set |-> FALSE, v |-> << >>]
Meta(m) == [set |-> TRUE, v |-> m]

NoPick == [pick |-> "none", value |-> << >>, meta |-> MetaNone, exc |-> NoExc, ran |-> << >>]

\* A variant of first that builds the list of all candidates and takes its head.
first_eager(steps) ==
    LET ran == Exhaust(steps)
        got == Yields(ran)
    IN  IF got = << >>
        THEN [pick |-> "first", value |-> << >>, meta |-> MetaNone,
              exc |-> Raised("NoValueFound", "first"), ran |-> ran]
        ELSE [pick |-> "first", value |-> got[1].val, meta |-> Meta(got[1].at),
              exc |-> NoExc, ran |-> ran]

\* A variant of first that does not set the provenance.
first_bare(steps) ==
    LET ran == Pull(steps, 1)
        got == Yields(ran)
    IN  IF got = << >>
        THEN [pick |-> "first", value |-> << >>, meta |-> MetaNone,
              exc |-> Raised("NoValueFound", "first"), ran |-> ran]
        ELSE [pick |-> "first", value |-> got[1].val, meta |-> MetaNone,
              exc |-> NoExc, ran |-> ran]

\* pick.first
first(steps) ==
    LET ran == Pull(steps, 1)
        got == Yields(ran)
    IN  IF got = << >>
        THEN [pick |-> "first", value |-> << >>, meta |-> MetaNone,
              exc |-> Raised("NoValueFound", "first"), ran |-> ran]
        ELSE [pick |-> "first", value |-> got[1].val, meta |-> Meta(got[1].at),
              exc |-> NoExc, ran |-> ran]

\* A variant of the transposition that stops after the first pair.
ZipFirst(pairs) ==
    IF pairs = << >> THEN << >>
    ELSE << << pairs[1][1] >>, << pairs[1][2] >> >>

\* zip(*pairs): the pairs transposed; nothing for no pairs.
Zip(pairs) ==
    IF pairs = << >> THEN << >>
    ELSE << [i \in 1..Len(pairs) |-> pairs[i][1]], [i \in 1..Len(pairs) |-> pairs[i][2]] >>

\* pick.list
list(steps) ==
    LET ran == Exhaust(steps)
        got == Yields(ran)
        items == Zip([i \in 1..Len(got) |-> << got[i].val, got[i].at >>])
        values == IF items # << >> THEN items[1] ELSE << >>
        metas == IF items # << >> THEN items[2] ELSE << >>
    IN  [pick |-> "list", value |-> values, meta |-> Meta(metas), exc |-> NoExc, ran |-> ran]

\* The dict a candidate value stands for: its keys, and under each key an
\* item of its own.
DictKeysOf(v) ==
    CASE v % 3 = 1 -> {"a", "b"}
      [] v % 3 = 2 -> {"a", "c"}
      [] OTHER -> {}
DictOf(v) == [key \in DictKeysOf(v) |-> << v, key >>]

RECURSIVE MergeIntoNew(_, _, _, _)
\* A variant of the merge that only records the provenance of new keys.
MergeIntoNew(values, meta, got, keep_last) ==
    IF got = << >> THEN [values |-> values, meta |-> meta]
    ELSE LET dict_ == DictOf(Head(got).val)
             take == { key \in DOMAIN dict_ : key \notin DOMAIN values \/ keep_last }
             new == { key \in DOMAIN dict_ : key \notin DOMAIN values }
         IN  MergeIntoNew([key \in DOMAIN values \cup take |->
                             IF key \in take THEN dict_[key] ELSE values[key]],
                          [key \in DOMAIN meta \cup new |->
                             IF key \in new THEN Head(got).at ELSE meta[key]],
                          Tail(got), keep_last)

RECURSIVE MergeInto(_, _, _, _)
\* merge_dicts, lines 44-48: the loop over the candidates and their items.
MergeInto(values, meta, got, keep_last) ==
    IF got = << >> THEN [values |-> values, meta |-> meta]
    ELSE LET dict_ == DictOf(Head(got).val)
             take == { key \in DOMAIN dict_ : key \notin DOMAIN values \/ keep_last }
         IN  MergeInto([key \in DOMAIN values \cup take |->
                          IF key \in take THEN dict_[key] ELSE values[key]],
                       [key \in DOMAIN meta \cup take |->
                          IF key \in take THEN Head(got).at ELSE meta[key]],
                       Tail(got), keep_last)

\* pick.merge_dicts
merge_dicts(steps, keep_last) ==
    LET ran == Exhaust(steps)
        m == MergeInto(<< >>, << >>, Yields(ran), keep_last)
    IN  [pick |-> IF keep_last THEN "merge_dicts(keep_last)" ELSE "merge_dicts",
         value |-> m.values, meta |-> Meta(m.meta), exc |-> NoExc, ran |-> ran]

Picks == {"first", "list", "merge_dicts", "merge_dicts(keep_last)"}

\* param.load_value, lines 283-285: the pick policy applied to a ValuesIter
\* over the candidates of the param's getters.
PickValues(pk) ==
    /\ picked = NoPick
    /\ getters # << >>
    /\ LET steps == param_iter_values(getters, configs) IN
       picked' = CASE pk = "first" -> first(steps)
                   [] pk = "list" -> list(steps)
                   [] pk = "merge_dicts" -> merge_dicts(steps, FALSE)
                   [] pk = "merge_dicts(keep_last)" -> merge_dicts(steps, TRUE)
    /\ UNCHANGED << loaderVars, paramVars, slotVars, reads, on_load, getters,
                    configs, apply, scanVars, places, collVars, stack, exc, err, hist >>

(* ------------------------ scanning an application --------------------- *)
\* The names a class or an instance may define, and what a class may define
\* under a name: a param object or something else.
Names == {"x", "y"}
ParamValue(p) == [isparam |-> TRUE, p |-> p]
Plain == [isparam |-> FALSE, p |-> 0]
ClassValues == { ParamValue(p) : p \in 1..NParams } \cup { Plain }

\* cls.__dict__: the items in definition order, each name once.
ClassDicts ==
    { d \in UNION { [1..n -> Names \X ClassValues] : n \in 0..Cardinality(Names) } :
        \A i, j \in 1..Len(d) : d[i][1] = d[j][1] => i = j }

\* isinstance(v, param)
IsParam(item) == item[2].isparam

NoObj == [inst |-> {}, mro |-> << >>]
NotScanned == [done |-> FALSE, attrs |-> << >>]

RECURSIVE ScanItemsParamsOnly(_, _, _)
\* A variant of the scan that only remembers the names of params.
ScanItemsParamsOnly(items, defined_keys, cls_attrs) ==
    IF items = << >> THEN cls_attrs
    ELSE LET k == Head(items)[1] IN
         IF k \in defined_keys
         THEN ScanItemsParamsOnly(Tail(items), defined_keys, cls_attrs)
         ELSE IF IsParam(Head(items))
         THEN ScanItemsParamsOnly(Tail(items), defined_keys \cup {k}, Append(cls_attrs, Head(items)))
         ELSE ScanItemsParamsOnly(Tail(items), defined_keys, cls_attrs)

RECURSIVE ScanItems(_, _, _)
\* _find_cls_attrs, lines 1092-1099, over the items of the classes of the MRO
\* one after the other, with the predicate of _find_attrs_in_obj.
ScanItems(items, defined_keys, cls_attrs) ==
    IF items = << >> THEN cls_attrs
    ELSE LET k == Head(items)[1] IN
         IF k \in defined_keys
         THEN ScanItems(Tail(items), defined_keys, cls_attrs)
         ELSE IF IsParam(Head(items))
         THEN ScanItems(Tail(items), defined_keys \cup {k}, Append(cls_attrs, Head(items)))
         ELSE ScanItems(Tail(items), defined_keys \cup {k}, cls_attrs)

\* _find_cls_attrs(obj, lambda k, v: isinstance(v, param))
find_cls_attrs(o) == ScanItems(Flatten(o.mro), o.inst, << >>)

\* _find_attrs_in_obj: one Attribute per item scanned, named by the item's
\* name and holding its param.
find_attrs_in_obj(o) ==
    LET params == find_cls_attrs(o)
    IN  [i \in 1..Len(params) |-> [name |-> params[i][1], param |-> params[i][2].p]]

\* The application object is scanned for its attributes.
FindAttrs ==
    /\ scanned = NotScanned
    /\ obj # NoObj
    /\ scanned' = [done |-> TRUE, attrs |-> find_attrs_in_obj(obj)]
    /\ UNCHANGED << loaderVars, paramVars, slotVars, reads, on_load, getters,
                    configs, apply, picked, obj, places, collVars, stack, exc, err, hist >>

(* ---------------------------- specifications --------------------------- *)
\* Loader.__init__ (lines 120-130): the constructor registers its attributes
\* through add_attributes while the loader is not loading.
\* Up to the naming of apps and params, the key sets are those closed
\* towards the first app and param, and the set of unrelated keys.
LowerSet(S) == \A k \in S : \A a \in 1..k[1], p \in 1..k[2] : << a, p >> \in S
Diagonal == { k \in Keys : k[1] = k[2] }
InitAttrs == { SortedSeq(S) : S \in { T \in SUBSET Keys : LowerSet(T) \/ T = Diagonal } }

\* No param is being picked for.
NoParam == getters = << >> /\ configs = << >> /\ apply = NoApply /\ picked = NoPick

\* No application object is being scanned.
NoScan == obj = NoObj /\ scanned = NotScanned

\* The application is no list/dict structure.
NoCollection == coll = NoColl /\ coll_meta = NoColl /\ places = << >>

InitWith(attrs, hooks) ==
    /\ p_loader = [p \in 1..NParams |-> None]
    /\ \E a \in attrs :
         /\ attributes = [l \in Loaders |-> IF l = 1 THEN a ELSE << >>]
         /\ pending_keys = [l \in Loaders |-> IF l = 1 THEN a ELSE << >>]
    /\ on_load \in hooks
    /\ locked_keys = [l \in Loaders |-> << >>]
    /\ loaded_keys = [l \in Loaders |-> {}]
    /\ mid_load_keys = [l \in Loaders |-> {}]
    /\ loaded_configs = [l \in Loaders |-> << >>]
    /\ is_loading = [l \in Loaders |-> FALSE]
    /\ begin_count = [p \in Params |-> 0]
    /\ app_attr = [k \in Keys |-> Unset]
    /\ app_meta = [k \in Keys |-> Unset]
    /\ reads \in ReadGraphs
    /\ stack = << >>
    /\ exc = NoExc
    /\ err = NoExc
    /\ hist = [Hist0 EXCEPT !.init = [l \in Loaders |-> Range(attributes[l])]]

Init == InitWith(InitAttrs, { H \in SUBSET Params : Cardinality(H) <= MaxHooks }) /\ NoParam /\ NoScan /\ NoCollection

\* One loader run by the application, with everything a load() can meet.
Next ==
    \/ CallLoad(1)
    \/ ConfigStart
    \/ \E k \in Keys : ConfigRead(k)
    \/ ConfigReturn
    \/ ConfigRaise
    \/ FinalReset
    \/ FinalNext
    \/ LoadReturn
    \/ \E q \in Params : GetterRead(q)
    \/ GetterRaise
    \/ \E b \in Batches : ResolveReturn(b)
    \/ Unwind
    \/ Escape

Spec == Init /\ [][Next]_vars

\* Every call the interpreter has started goes on: the program is a single
\* thread that runs whenever it can.
InitFair ==
    /\ InitWith({ a \in InitAttrs : Len(a) <= MaxFairAttrs },
                { H \in SUBSET Params : Cardinality(H) <= MaxHooks })
    /\ NoParam
    /\ NoScan
    /\ NoCollection

FairSpec == InitFair /\ [][Next]_vars /\ WF_vars(Next)

\* An application that also registers attributes and uses params outside
\* of load(), with getters that run other loaders.
NextApp ==
    \/ \E l \in Loaders : CallLoad(l)
    \/ ConfigStart
    \/ ConfigReturn
    \/ FinalReset
    \/ FinalNext
    \/ LoadReturn
    \/ \E q \in Params : GetterRead(q)
    \/ ResolveReturn(<< >>)
    \/ Unwind
    \/ Escape
    \/ \E l \in Loaders : NestedLoad(l)
    \/ \E l \in Loaders, k \in Keys : DirectResolve(l, k)
    \/ \E l \in Loaders, b \in Batches : TopAdd(l, b)
    \/ \E k \in Keys : TopRead(k)
    \/ \E p \in Params, m \in {"get_value", "load_value", "end_load"} : TopCall(p, m)

\* The application's loader starts with the first param of the first app;
\* the params have no hooks.
InitApp ==
    InitWith({ << >>, << << 1, 1 >> >> }, { {} }) /\ NoParam /\ NoScan /\ NoCollection

SpecApp == InitApp /\ [][NextApp]_vars

\* One loader with the attributes of two apps of one class, whose getters
\* also read the other app's attributes; the params have no hooks.
InitShared ==
    /\ InitWith({ a \in InitAttrs : \E p \in 1..NParams :
                                      << 1, p >> \in Range(a) /\ << 2, p >> \in Range(a) },
                { {} })
    /\ NoParam
    /\ NoScan
    /\ NoCollection

NextShared ==
    \/ CallLoad(1)
    \/ ConfigStart
    \/ ConfigReturn
    \/ FinalReset
    \/ FinalNext
    \/ LoadReturn
    \/ \E q \in Params : GetterRead(q)
    \/ \E k \in Keys : GetterReadApp(k)
    \/ ResolveReturn(<< >>)
    \/ Unwind
    \/ Escape

SpecShared == InitShared /\ [][NextShared]_vars

\* The sequences of at most n elements of S.
SeqUpTo(S, n) == UNION { [1..m -> S] : m \in 0..n }

RECURSIVE Total(_)
Total(ns) == IF ns = << >> THEN 0 ELSE Head(ns) + Total(Tail(ns))

\* The number of values the finders of the configs hold.
Held(cfgs) ==
    Total([c \in 1..Len(cfgs) |->
             Total([f \in 1..Len(cfgs[c].finders) |-> Len(cfgs[c].finders[f])])])

\* The configs a param may be resolved with: each has a class and finders,
\* and each finder holds the values it finds under the param's key.
ConfigLists ==
    { cfgs \in SeqUpTo([cls : Classes, finders : SeqUpTo(SeqUpTo(Vals, MaxFound), MaxFinders)],
                       MaxPickConfigs) : Held(cfgs) <= MaxCands }

\* A param with its getters, and the configs it is resolved with.
InitPick ==
    /\ InitWith({ << >> }, { {} })
    /\ reads = [p \in Params |-> {}]
    /\ getters \in SeqUpTo(Getters, MaxGetters)
    /\ configs \in ConfigLists
    /\ apply = NoApply
    /\ picked = NoPick
    /\ NoScan
    /\ NoCollection

NextPick == \E pk \in Picks : PickValues(pk)

SpecPick == InitPick /\ [][NextPick]_vars

\* The pipelines of at most MaxApply functions.
Pipelines == SeqUpTo(ApplyFuncs, MaxApply)

\* A param with an apply of its own and with getters of which each Key getter
\* has an apply; the configs are of one class.
InitApply ==
    /\ InitWith({ << >> }, { {} })
    /\ reads = [p \in Params |-> {}]
    /\ getters \in SeqUpTo({ KeyGetter(1), FuncGetter(1) }, MaxGetters)
    /\ configs \in { cfgs \in ConfigLists : Len(cfgs) <= 1 }
    /\ apply \in { a \in [key : [1..MaxGetters -> Pipelines], param : Pipelines] :
                     \A g \in 1..MaxGetters :
                         (g > Len(getters) \/ getters[g].type # "Key") => a.key[g] = << >> }
    /\ picked = NoPick
    /\ NoScan
    /\ NoCollection

SpecApply == InitApply /\ [][NextPick]_vars

\* The read graphs in the shape of a diamond: one param reads two others
\* and each of these reads one fourth param; any other param reads nothing.
Diamonds(ps) ==
    { g \in [ps -> SUBSET ps] :
        \E a, b, c, d \in ps :
            /\ Cardinality({a, b, c, d}) = 4
            /\ g[a] = {b, c} /\ g[b] = {d} /\ g[c] = {d}
            /\ \A e \in ps \ {a, b, c} : g[e] = {} }

\* load(app, configs) of one application whose class declares NDiamond
\* params, with getters that read each other in a diamond.
InitDiamond ==
    /\ p_loader = [p \in 1..NDiamond |-> None]
    /\ begin_count = [p \in Params |-> 0]
    /\ attributes = [l \in Loaders |-> IF l = 1 THEN [p \in Params |-> << 1, p >>] ELSE << >>]
    /\ pending_keys = attributes
    /\ on_load = {}
    /\ reads \in Diamonds(Params)
    /\ locked_keys = [l \in Loaders |-> << >>]
    /\ loaded_keys = [l \in Loaders |-> {}]
    /\ mid_load_keys = [l \in Loaders |-> {}]
    /\ loaded_configs = [l \in Loaders |-> << >>]
    /\ is_loading = [l \in Loaders |-> FALSE]
    /\ app_attr = [k \in Keys |-> Unset]
    /\ app_meta = [k \in Keys |-> Unset]
    /\ stack = << >>
    /\ exc = NoExc
    /\ err = NoExc
    /\ hist = [Hist0 EXCEPT !.init = [l \in Loaders |-> Range(attributes[l])]]
    /\ NoParam
    /\ NoScan
    /\ NoCollection

\* The load with configs that read the application's attributes and getters
\* that always find a value.
NextDiamond ==
    \/ CallLoad(1)
    \/ ConfigStart
    \/ \E p \in Params : ConfigRead(<< 1, p >>)
    \/ ConfigReturn
    \/ FinalReset
    \/ FinalNext
    \/ LoadReturn
    \/ \E q \in Params : GetterRead(q)
    \/ ResolveReturn(<< >>)

SpecDiamond == InitDiamond /\ [][NextDiamond]_vars

\* An application object of a class with up to MaxMro classes in its method
\* resolution order, the most specific first.
Objects == [inst : SUBSET Names, mro : UNION { [1..n -> ClassDicts] : n \in 1..MaxMro }]

InitScan ==
    /\ InitWith({ << >> }, { {} })
    /\ reads = [p \in Params |-> {}]
    /\ NoParam
    /\ obj \in Objects
    /\ scanned = NotScanned
    /\ NoCollection

NextScan == FindAttrs

SpecScan == InitScan /\ [][NextScan]_vars

RECURSIVE ValidPath(_, _)
ValidPath(c, path) ==
    \/ path = << >>
    \/ /\ IsContainer(c) /\ Head(path) <= Len(c.items)
       /\ ValidPath(c.items[Head(path)], Tail(path))

\* The slots of a structure: the paths that lead to an item that is no list
\* or dict.
Slots(c) ==
    { path \in UNION { [1..n -> 1..MaxItems] : n \in 1..MaxDepth } :
        ValidPath(c, path) /\ ~IsContainer(ItemAt(c, path)) }

RECURSIVE CollectionsOf(_)
\* The items nested at most d deep.
CollectionsOf(d) ==
    LET leaves == { ParamItem(p) : p \in 1..NParams } \cup { PlainItem(1) } IN
    IF d = 0 THEN leaves
    ELSE leaves \cup { Container(kind, items) :
                         kind \in {"list", "dict"},
                         items \in SeqUpTo(CollectionsOf(d - 1), MaxItems) }

\* load_collection(app, configs, meta=...): app is a list or a dict in which
\* every param object occurs once (the Loader's constructor rejects a second
\* attribute of the same app and param); meta is None or a structure made by
\* meta_from_collection.
InitColl ==
    /\ coll \in { c \in CollectionsOf(MaxDepth) :
                    /\ IsContainer(c)
                    /\ Cardinality(Slots(c)) <= MaxSlots
                    /\ NoDuplicates(AttrKeys(find_attrs_in_collection(c))) }
    /\ coll_meta \in { NoColl, meta_from_collection(coll) }
    /\ places = AttrPlaces(find_attrs_in_collection(coll))
    /\ InitWith({ AttrKeys(find_attrs_in_collection(coll)) }, { {} })
    /\ reads = [p \in Params |-> {}]
    /\ NoParam
    /\ NoScan

NextColl ==
    \/ CallLoad(1)
    \/ ConfigStart
    \/ \E k \in DOMAIN places : ConfigRead(k)
    \/ ConfigReturn
    \/ FinalReset
    \/ FinalNext
    \/ LoadReturn
    \/ ResolveReturn(<< >>)
    \/ \E key \in 1..MaxItems : getitem(key)
    \/ Unwind
    \/ Escape

SpecColl == InitColl /\ [][NextColl]_vars

(* ============================ properties =============================== *)
RECURSIVE ReachFrom(_, _)
ReachFrom(S, n) ==
    IF n = 0 THEN S ELSE ReachFrom(S \cup UNION { reads[q] : q \in S }, n - 1)

\* No param's getters read, directly or through others, the param itself.
Acyclic == \A p \in Params : p \notin ReachFrom(reads[p], NParams)

IsPrefix(s, t) == Len(s) <= Len(t) /\ \A i \in 1..Len(s) : s[i] = t[i]

\* The latest load() of l has returned normally and nothing is running.
Returned(l) == stack = << >> /\ exc = NoExc /\ hist.done[l] = "returned"

\* A step that resets the attributes of l and starts the next phase.
ResetStep(l) ==
    /\ Running /\ Top.op = "load" /\ Top.l = l /\ Top.pc = "configs"
    /\ exc' = NoExc /\ stack' # stack

\* A step in which the running load() of l exits.
LoadExit(l) == hist.done[l] = "running" /\ hist'.done[l] # "running"

(* C1: load() terminates when the getters' dependency graph is acyclic, and
   when it returns nothing is pending, every registered attribute is loaded
   and holds a value, and each was resolved exactly once in the final pass. *)
C1_LoadTerminates ==
    /\ [](Returned(1) =>
            /\ pending_keys[1] = << >>
            /\ locked_keys[1] = << >>
            /\ loaded_keys[1] = Range(attributes[1])
            /\ \A k \in Range(attributes[1]) : hist.nres[k] = 1 /\ app_attr[k].has)
    /\ ((Acyclic /\ Active(1)) ~> ~Active(1))

\* A load() that discovered attributes in its final pass has returned.
C1_Witness ==
    /\ Returned(1) /\ Acyclic
    /\ Len(attributes[1]) >= 3
    /\ hist.mid[1] # {}
    /\ \E p \in Params : reads[p] # {}

(* C2: resolving a key that is on the locked stack fails with
   CircularDependency, whose payload is the locked chain followed by the
   repeated key. *)
C2_CircularDependency ==
    exc.site = "circular" =>
        /\ exc.kind = "CircularDependency"
        /\ Len(exc.info) >= 2
        /\ Last(exc.info) \in Range(Front(exc.info))

(* C3: while the config at position i loads, every resolution it triggers is
   handed exactly the configs at the positions before i, and the values
   stored in that phase were computed from them. *)
C3_OnlyEarlierConfigs ==
    \A j \in 1..Len(stack) :
        stack[j].op = "config" =>
            LET l == stack[j].l
                seen == SubSeq(ConfigsOf(l), 1, stack[j].i - 1)
            IN  /\ \A m \in (j + 1)..Len(stack) :
                     (stack[m].op = "resolve" /\ stack[m].l = l) => stack[m].cfgs = seen
                /\ \A k \in loaded_keys[l] : app_attr[k] = Stored(seen)

\* The second config reads an attribute whose getter has read another one.
C3_Witness ==
    /\ Len(stack) >= 3
    /\ stack[2].op = "config" /\ stack[2].i = 2
    /\ Top.op = "resolve"
    /\ loaded_keys[1] # {}

(* C4, as claimed: at each phase boundary every loaded attribute has its
   value and provenance deleted and is pending again. *)
C4_LoadedReturnToPending ==
    [][\A l \in Loaders : ResetStep(l) =>
          \A k \in loaded_keys[l] :
              /\ ~app_attr'[k].has /\ ~app_meta'[k].has
              /\ k \in Range(pending_keys'[l])]_vars

(* C4, amended: at each phase boundary every loaded attribute has its value
   and provenance deleted and is no longer loaded; it is pending again unless
   it was discovered mid-load, in which case it is forgotten.  The values a
   load() leaves behind were computed with all the configs. *)
C4_ValuesDiscarded ==
    /\ [][\A l \in Loaders : ResetStep(l) =>
            /\ loaded_keys'[l] = {}
            /\ \A k \in loaded_keys[l] :
                 /\ ~app_attr'[k].has /\ ~app_meta'[k].has
                 /\ k \in Range(pending_keys'[l]) <=> k \notin mid_load_keys[l]]_vars
    /\ [](Returned(1) => \A k \in Range(attributes[1]) : app_attr[k] = Stored(ConfigsOf(1)))

\* The final pass starts after a reset that deleted the value of an attribute
\* that stays and of one that is forgotten.
C4_Witness ==
    /\ Running /\ Top.op = "load" /\ Top.pc = "final"
    /\ hist.wiped[1] = {"kept", "forgotten"}
    /\ loaded_keys[1] = {}
    /\ \A k \in Keys : ~app_attr[k].has /\ ~app_meta[k].has

(* C5: an attribute that add_attributes registered during a load() is gone
   from the attribute table, with its value, after the next reset. *)
C5_MidLoadForgotten ==
    [][\A l \in Loaders : ResetStep(l) =>
          \A k \in hist.mid[l] :
              k \notin Range(attributes'[l]) /\ ~app_attr'[k].has]_vars

(* C6: within one load() the configs are loaded once each, in the order
   given, and all of them before the final pass. *)
C6_ConfigsOnceInOrder ==
    \A l \in Loaders :
        /\ IsPrefix(hist.calls[l], ConfigsOf(l))
        /\ Cardinality({ j \in 1..Len(stack) : stack[j].op = "config" /\ stack[j].l = l }) <= 1
        /\ \A j \in 1..Len(stack) :
             (stack[j].op = "load" /\ stack[j].l = l /\ stack[j].pc = "final") =>
                 /\ hist.calls[l] = ConfigsOf(l)
                 /\ loaded_configs[l] = ConfigsOf(l)
                 /\ \A m \in 1..Len(stack) : ~(stack[m].op = "config" /\ stack[m].l = l)

\* The final pass runs after both configs were loaded.
C6_Witness ==
    /\ Running /\ Top.op = "resolve" /\ Top.l = 1
    /\ stack[1].pc = "final"
    /\ hist.calls[1] = << 1, 2 >>

(* C7: when load() exits, every param it has bound is unbound again: no
   loader, counter 0. *)
C7_UnboundAtExit ==
    [][\A l \in Loaders : LoadExit(l) =>
          \A p \in hist.bound[l] : p_loader'[p] = None /\ begin_count'[p] = 0]_vars

(* C8: begin_load on a param that another loader has bound fails with
   UsageError and leaves the param's loader and counter as they were. *)
C8_SecondLoaderRejected ==
    [][\A l \in Loaders :
          ( /\ hist'.ncalls # hist.ncalls
            /\ stack' = Append(stack, LoadFrame(l, "configs", 1))
            /\ \E k \in Range(attributes[l]) : p_loader[ParamOf(k)] \notin {None, l} )
          => /\ exc'.kind = "UsageError"
             /\ \A p \in Params : p_loader[p] \notin {None, l} =>
                    p_loader'[p] = p_loader[p] /\ begin_count'[p] = begin_count[p]]_vars

(* C9: the counter of a param is never negative and is positive exactly when
   the param has a loader; begin_load by that loader adds one, end_load takes
   one away and clears the loader exactly when the counter reaches zero. *)
C9_CounterMatchesBinding ==
    \A p \in Params :
        /\ begin_count[p] >= 0
        /\ begin_count[p] > 0 <=> p_loader[p] # None
        /\ p_loader[p] # None =>
             LET b == begin_load(PState, p, p_loader[p])
                 e == end_load(PState, p)
             IN  /\ b.exc = NoExc /\ b.ldr[p] = p_loader[p]
                 /\ b.cnt[p] = begin_count[p] + 1
                 /\ e.exc = NoExc
                 /\ e.cnt[p] = begin_count[p] - 1
                 /\ e.ldr[p] = None <=> e.cnt[p] = 0
                 /\ e.ldr[p] # None => e.ldr[p] = p_loader[p]

\* A param shared by two attributes of a loader has been bound twice.
C9_Witness == \E p \in Params : begin_count[p] = 2 /\ p_loader[p] = 1

(* C10: reading a param through the descriptor, get_value, load_value and
   end_load each fail with UsageError on a param that no loader has bound,
   and change neither the param nor any loader. *)
C10_UnboundUseRejected ==
    [][( /\ stack = << >> /\ exc = NoExc
         /\ stack' = << >> /\ exc' # NoExc
         /\ hist'.op \in {"__get__", "get_value", "load_value", "end_load"} )
       => /\ exc'.kind = "UsageError"
          /\ UNCHANGED << loaderVars, paramVars >>]_vars

\* A step in which the on_load hook of the param being resolved raises.
HookRaised ==
    /\ Running /\ Top.op = "resolve"
    /\ exc' # NoExc
    /\ stack' = Front(stack)

\* A step in which the application's add_attributes call registers keys.
AddedOutsideLoad(l) ==
    /\ stack = << >> /\ stack' = << >>
    /\ hist'.nadds # hist.nadds
    /\ err' = NoExc
    /\ Range(attributes'[l]) # Range(attributes[l])

(* C11: add_attributes given a key that the loader has already registered
   fails with UsageError, during a load() and outside of one. *)
C11_DuplicateRejected ==
    /\ exc.site = "duplicate" => exc.kind = "UsageError"
    /\ err.site = "duplicate" => err.kind = "UsageError"

(* C12: load_attribute_value on a key that is not registered, or that is
   already loaded, fails with UsageError. *)
C12_UnknownOrLoadedRejected ==
    exc.site \in {"unknown", "loaded"} => exc.kind = "UsageError"

(* C13: the on_load hook runs after the value and the provenance of the
   resolution are stored, so a hook that raises leaves them stored and the
   attribute loaded. *)
C13_HookAfterStorage ==
    [][HookRaised =>
          /\ app_attr'[Top.k].has /\ app_meta'[Top.k].has
          /\ Top.k \in loaded_keys'[Top.l]]_vars

(* C19: while load() aborts, no stored value or provenance is deleted,
   nothing is loaded or resolved again, and the error that aborted the
   load() is the one that reaches its caller. *)
C19_AbortKeepsValues ==
    [][exc # NoExc =>
          /\ UNCHANGED slotVars
          /\ hist'.calls = hist.calls /\ hist'.nres = hist.nres
          /\ exc' = exc \/ (stack = << >> /\ err' = exc)]_vars

(* C20: add_attributes called while no load() of the loader is in progress
   leaves the new params unbound and does not mark the new keys as
   discovered mid-load. *)
C20_BindsOnlyDuringLoad ==
    [][\A l \in Loaders : AddedOutsideLoad(l) =>
          /\ mid_load_keys'[l] = mid_load_keys[l]
          /\ UNCHANGED paramVars]_vars

\* The candidates of the param, in the order its getters produce them.
Candidates == Yields(param_iter_values(getters, configs))

\* The places that hold a value for the param: a Func or Value getter, or a
\* value of a finder of a config that is an instance of a Key getter's class.
Places ==
    { << g, 0, 0, 0 >> : g \in { h \in 1..Len(getters) : getters[h].type # "Key" } }
    \cup { at \in (1..Len(getters)) \X (1..Len(configs)) \X (1..MaxFinders) \X (1..MaxFound) :
             /\ getters[at[1]].type = "Key"
             /\ IsInstance(configs[at[2]], getters[at[1]].cls)
             /\ at[3] <= Len(configs[at[2]].finders)
             /\ at[4] <= Len(configs[at[2]].finders[at[3]]) }

\* The value held at a place.
ValueAt(at) ==
    IF at[2] = 0 THEN getters[at[1]].val ELSE configs[at[2]].finders[at[3]][at[4]]

\* Place a comes before place b: by getter, then config, then finder, then
\* the finder's own order.
Before(a, b) ==
    \E n \in 1..4 : a[n] < b[n] /\ \A m \in 1..(n - 1) : a[m] = b[m]

\* Those of the candidates c whose dict has the key.
Suppliers(c, key) == { n \in 1..Len(c) : key \in DictKeysOf(c[n].val) }
Least(S) == CHOOSE n \in S : \A m \in S : n <= m
Greatest(S) == CHOOSE n \in S : \A m \in S : n >= m

(* C14: `first` returns the value of the first candidate and sets the
   provenance to that candidate's; without candidates it fails with
   NoValueFound and leaves the provenance unset. *)
C14_FirstPicksHead ==
    picked.pick = "first" =>
        LET c == Candidates IN
        IF c = << >>
        THEN picked.exc.kind = "NoValueFound" /\ ~picked.meta.set
        ELSE /\ picked.exc = NoExc
             /\ picked.value = c[1].val
             /\ picked.meta = Meta(c[1].at)

\* `first` has picked among several candidates with different values.
C14_Witness ==
    /\ picked.pick = "first" /\ picked.exc = NoExc
    /\ Len(Candidates) >= 2
    /\ Candidates[1].val # Candidates[2].val

(* C15: `list` returns the values of all candidates in order and sets the
   provenance to the list of their provenances, of the same length and in
   the same order; both are empty lists when there is no candidate. *)
C15_ListKeepsAll ==
    picked.pick = "list" =>
        LET c == Candidates IN
        /\ picked.exc = NoExc /\ picked.meta.set
        /\ Len(picked.value) = Len(c)
        /\ Len(picked.meta.v) = Len(picked.value)
        /\ \A n \in 1..Len(c) :
             /\ picked.value[n] = c[n].val
             /\ picked.meta.v[n] = c[n].at

\* `list` has picked three candidates that are not all the same.
C15_Witness ==
    /\ picked.pick = "list"
    /\ Len(picked.value) = 3
    /\ picked.value[1] # picked.value[3]

(* C16: merge_dicts returns the union of the keys of the candidates; a key
   that several candidates have keeps the item of the first of them, or of
   the last with keep_last; the provenance has the same keys and holds, for
   each, the provenance of the candidate that supplied the item. *)
C16_MergeDicts ==
    picked.pick \in {"merge_dicts", "merge_dicts(keep_last)"} =>
        LET c == Candidates
            keys == UNION { DictKeysOf(c[n].val) : n \in 1..Len(c) }
            from(key) == IF picked.pick = "merge_dicts"
                         THEN Least(Suppliers(c, key)) ELSE Greatest(Suppliers(c, key))
        IN  /\ picked.exc = NoExc /\ picked.meta.set
            /\ DOMAIN picked.value = keys
            /\ DOMAIN picked.meta.v = keys
            /\ \A key \in keys :
                 /\ picked.value[key] = DictOf(c[from(key)].val)[key]
                 /\ picked.meta.v[key] = c[from(key)].at

\* merge_dicts with keep_last has merged two dicts that share a key and each
\* have one of their own.
C16_Witness ==
    /\ picked.pick = "merge_dicts(keep_last)"
    /\ Len(Candidates) >= 2
    /\ DOMAIN picked.value = {"a", "b", "c"}
    /\ picked.meta.v["a"] = Candidates[Len(Candidates)].at
    /\ picked.meta.v["a"] # Candidates[1].at

(* C17: with `first`, which consumes one candidate, nothing that belongs to
   a later candidate is executed: no finder lookup, callable or apply of a
   place after the first candidate's. *)
C17_LaterCandidatesNotRun ==
    picked.pick = "first" =>
        LET c == Candidates IN
        c # << >> =>
            /\ Len(Yields(picked.ran)) = 1
            /\ \A n \in 1..Len(picked.ran) : ~Before(c[1].at, picked.ran[n].at)

\* `first` has taken a value scanned in a config while a later finder, a later
\* config and a callable of a later getter also had candidates.
C17_Witness ==
    /\ picked.pick = "first" /\ picked.exc = NoExc
    /\ Len(getters) = 2 /\ getters[1].type = "Key" /\ getters[2].type = "Func"
    /\ Len(Candidates) >= 3
    /\ Len(picked.ran) < Len(param_iter_values(getters, configs))

(* C18: the candidates come ordered by getter, then by config among the
   instances of the Key getter's class, then by finder, then in the finder's
   own order, each with the value held there; so `first` takes a key that
   two configs have from the earlier one. *)
C18_CandidateOrder ==
    /\ picked.pick = "list" =>
         /\ Range(picked.meta.v) = Places
         /\ \A n, m \in 1..Len(picked.meta.v) :
              n < m => Before(picked.meta.v[n], picked.meta.v[m])
         /\ \A n \in 1..Len(picked.value) : picked.value[n] = ValueAt(picked.meta.v[n])
    /\ (picked.pick = "first" /\ Places # {}) =>
         /\ picked.meta.v \in Places
         /\ \A at \in Places : at = picked.meta.v \/ Before(picked.meta.v, at)
         /\ picked.value = ValueAt(picked.meta.v)

\* `first` has taken the key from the first of two configs of the getter's
\* class that hold different values for it.
C18_Witness ==
    /\ picked.pick = "first" /\ picked.exc = NoExc
    /\ getters[1].type = "Key"
    /\ Len(configs) = 2
    /\ << 1, 1, 1, 1 >> \in Places /\ << 1, 2, 1, 1 >> \in Places
    /\ ValueAt(<< 1, 1, 1, 1 >>) # ValueAt(<< 1, 2, 1, 1 >>)
    /\ picked.value = ValueAt(<< 1, 1, 1, 1 >>)

\* A step of the final pass of loader l in which the on_load hook of the
\* param being resolved registers attributes and returns.
HookAdded(l) ==
    /\ Running /\ Top.op = "resolve" /\ Top.l = l
    /\ stack[1].op = "load" /\ stack[1].l = l /\ stack[1].pc = "final"
    /\ exc' = NoExc
    /\ Len(attributes'[l]) > Len(attributes[l])

(* C21: the attributes an on_load hook registers during the final pass are
   appended to the pending list, and when load() returns each of them is
   still registered, was resolved once, is loaded and holds a value. *)
C21_HookAttrsLoaded ==
    /\ [][HookAdded(1) =>
            LET new == SubSeq(attributes'[1], Len(attributes[1]) + 1, Len(attributes'[1]))
            IN  /\ pending_keys'[1] = Without(pending_keys[1], Top.k) \o new
                /\ Range(new) \subseteq hist'.mid[1]]_vars
    /\ [](Returned(1) =>
            \A k \in hist.mid[1] :
                /\ k \in Range(attributes[1]) /\ k \in loaded_keys[1]
                /\ k \notin Range(pending_keys[1])
                /\ hist.nres[k] = 1
                /\ app_attr[k].has /\ app_meta[k].has)

\* load() has returned after a hook of its final pass registered two
\* attributes, one of them of another app.
C21_Witness ==
    /\ Returned(1)
    /\ Cardinality(hist.mid[1]) = 2
    /\ \E k \in hist.mid[1] : \E j \in Range(attributes[1]) \ hist.mid[1] : AppOf(k) # AppOf(j)
    /\ hist.mid[1] \subseteq loaded_keys[1]

\* A step in which loader l starts param.load_value for key k.
LoadValueStarts(l, k) ==
    /\ Len(stack') = Len(stack) + 1
    /\ stack'[Len(stack')].op = "resolve"
    /\ stack'[Len(stack')].l = l /\ stack'[Len(stack')].k = k

\* A step in which loader l stores the value it computed for key k.
ValueStored(l, k) == k \in loaded_keys'[l] /\ k \notin loaded_keys[l]

(* C22: whenever a loader's load_attribute_value runs param.load_value for a
   param, and whenever it stores the value, the param is bound to that
   loader. *)
C22_ResolvedByBoundLoader ==
    [][\A l \in Loaders, k \in Keys :
          (LoadValueStarts(l, k) \/ ValueStored(l, k)) => p_loader[ParamOf(k)] = l]_vars

(* C26: in every state of a Loader the pending list and the loaded set are
   disjoint and together hold exactly the registered keys, the pending list
   has no duplicates, every locked key is pending and locked once, and every
   mid-load key is registered; a key only becomes loaded from the top of the
   locked stack, and a loaded key only becomes pending again through a
   reset. *)
C26_KeySetsPartition ==
    /\ [](\A l \in Loaders :
            /\ Range(pending_keys[l]) \cap loaded_keys[l] = {}
            /\ Range(pending_keys[l]) \cup loaded_keys[l] = Range(attributes[l])
            /\ NoDuplicates(pending_keys[l])
            /\ Range(locked_keys[l]) \subseteq Range(pending_keys[l])
            /\ NoDuplicates(locked_keys[l])
            /\ mid_load_keys[l] \subseteq Range(attributes[l]))
    /\ [][\A l \in Loaders, k \in Keys :
            /\ ValueStored(l, k) => locked_keys[l] # << >> /\ Last(locked_keys[l]) = k
            /\ (k \in loaded_keys[l] /\ k \in Range(pending_keys'[l])) => ResetStep(l)]_vars

\* A loader with a key of each kind: loaded, locked and only pending, one of
\* them discovered mid-load.
C26_Witness ==
    /\ loaded_keys[1] # {}
    /\ locked_keys[1] # << >>
    /\ Range(pending_keys[1]) \ Range(locked_keys[1]) # {}
    /\ mid_load_keys[1] # {}

\* The position of key k in the attribute table: its registration order.
Pos(s, k) == CHOOSE i \in 1..Len(s) : s[i] = k

\* A step in which the loop of the final pass of loader l picks a key.
LoopPicks(l, k) ==
    /\ Running /\ Top.op = "load" /\ Top.l = l /\ Top.pc = "final"
    /\ LoadValueStarts(l, k)

\* A step in which a resolution of k that another resolution asked for
\* during the final pass of l returns.
DependencyResolved(l, k) ==
    /\ Running /\ Top.op = "resolve" /\ Top.l = l /\ Top.k = k
    /\ Len(stack) >= 3 /\ stack[Len(stack) - 1].op = "resolve"
    /\ stack[1].l = l /\ stack[1].pc = "final"
    /\ ValueStored(l, k)

(* C29: the loop of the final pass always resolves the earliest-registered
   key that is still pending; a key resolved on demand for another one leaves
   the pending list when its resolution returns, and no key is resolved a
   second time in the pass. *)
C29_EarliestPendingFirst ==
    /\ [][\A l \in Loaders, k \in Keys :
            /\ LoopPicks(l, k) =>
                 /\ k \in Range(pending_keys[l]) /\ k \notin loaded_keys[l]
                 /\ \A j \in Range(pending_keys[l]) :
                      Pos(attributes[l], k) <= Pos(attributes[l], j)
            /\ DependencyResolved(l, k) => k \notin Range(pending_keys'[l])]_vars
    /\ [](\A j \in 1..Len(stack) :
            (stack[j].op = "load" /\ stack[j].pc = "final") =>
                \A k \in Range(attributes[stack[j].l]) : hist.nres[k] <= 1)

\* The loop picks the third attribute: the second one was resolved on demand
\* for the first and is loaded already.
C29_Witness ==
    /\ Len(stack) = 2 /\ stack[1].pc = "final" /\ Top.op = "resolve"
    /\ Len(attributes[1]) >= 3
    /\ Top.k = attributes[1][3]
    /\ loaded_keys[1] = {attributes[1][1], attributes[1][2]}
    /\ attributes[1][2][2] \in reads[attributes[1][1][2]]
    /\ hist.nres[attributes[1][2]] = 1

\* The classes of the scanned object that define the name.
Definers(name) ==
    { c \in 1..Len(obj.mro) : \E i \in 1..Len(obj.mro[c]) : obj.mro[c][i][1] = name }

\* What the first class of the MRO that defines the name defines it as.
FirstDefinition(name) ==
    LET c == Least(Definers(name))
        i == CHOOSE j \in 1..Len(obj.mro[c]) : obj.mro[c][j][1] = name
    IN  obj.mro[c][i][2]

(* C23: scanning an object yields at most one attribute per name; a name has
   an attribute exactly when the instance's own dictionary does not have the
   name and the first class of the MRO that defines it defines it as a
   param, and the attribute holds that param. *)
C23_FirstInMroWins ==
    scanned.done =>
        /\ \A i, j \in 1..Len(scanned.attrs) : scanned.attrs[i].name = scanned.attrs[j].name => i = j
        /\ \A name \in Names :
             LET has == \E i \in 1..Len(scanned.attrs) : scanned.attrs[i].name = name IN
             /\ has <=> ( /\ name \notin obj.inst
                          /\ Definers(name) # {}
                          /\ FirstDefinition(name).isparam )
             /\ \A i \in 1..Len(scanned.attrs) :
                  scanned.attrs[i].name = name => scanned.attrs[i].param = FirstDefinition(name).p

\* The scan has scanned one param where an ancestor defines another param under
\* the same name, and none where a subclass shadows the ancestor's param with
\* something else.
C23_Witness ==
    /\ scanned.done /\ Len(obj.mro) = 2
    /\ Len(scanned.attrs) = 1 /\ scanned.attrs[1].name = "x"
    /\ \E i \in 1..Len(obj.mro[2]) :
         obj.mro[2][i][1] = "x" /\ obj.mro[2][i][2].isparam /\ obj.mro[2][i][2].p # scanned.attrs[1].param
    /\ \E i \in 1..Len(obj.mro[1]) : obj.mro[1][i] = << "y", Plain >>
    /\ \E i \in 1..Len(obj.mro[2]) : obj.mro[2][i][1] = "y" /\ obj.mro[2][i][2].isparam
    /\ obj.inst = {}

\* The slots that held a param when the structure was handed over: those
\* that hold one now or have an Attribute's value in its place.
ParamSlots == { path \in Slots(coll) : ItemAt(coll, path).t \in {"param", "value"} }

(* C24: load_collection registers exactly one attribute for each slot, at any
   depth, that holds a param, and its setters write that slot; a slot that
   held no param never changes; at a reset every loaded slot gets its param
   object back and its meta slot None; after a successful load every param
   slot holds the value resolved with all the configs and its meta slot the
   provenance. *)
C24_CollectionSlots ==
    /\ [](coll # NoColl =>
            /\ Len(attributes[1]) = Cardinality(ParamSlots)
            /\ \A path \in ParamSlots :
                 \E k \in Range(attributes[1]) :
                     /\ places[k] = path
                     /\ ItemAt(coll, path).t = "param" => ItemAt(coll, path).p = ParamOf(k)
            /\ coll_meta # NoColl => Slots(coll_meta) = Slots(coll))
    /\ [][coll # NoColl =>
            /\ Slots(coll') = Slots(coll)
            /\ \A path \in Slots(coll) \ ParamSlots :
                 /\ ItemAt(coll', path) = ItemAt(coll, path)
                 /\ coll_meta # NoColl => ItemAt(coll_meta', path) = NoneItem
            /\ ResetStep(1) =>
                 \A k \in loaded_keys[1] :
                     /\ ItemAt(coll', places[k]) = ParamItem(ParamOf(k))
                     /\ coll_meta # NoColl => ItemAt(coll_meta', places[k]) = NoneItem]_vars
    /\ []((coll # NoColl /\ Returned(1)) =>
            \A k \in Range(attributes[1]) :
                /\ ItemAt(coll, places[k]) = ValueItem(ConfigsOf(1))
                /\ coll_meta # NoColl => ItemAt(coll_meta, places[k]) = MetaItem(ConfigsOf(1)))

\* A structure with a param in the root and one in a nested dict, next to
\* other values, has been loaded with a meta structure, after a reset that
\* restored a slot.
C24_Witness ==
    /\ Returned(1) /\ coll_meta # NoColl
    /\ \E k, j \in Range(attributes[1]) : Len(places[k]) = 1 /\ Len(places[j]) = 2
    /\ \E path \in Slots(coll) : Len(path) = 2 /\ ItemAt(coll, path).t = "plain"
    /\ hist.wiped[1] = {}
    /\ \A k \in Range(attributes[1]) : ItemAt(coll, places[k]).t = "value"

(* C25: during a load getitem(app, key) returns app[key] as it is when the
   entry is no param, changing nothing; when the entry is a param it starts
   the resolution of that param for app by the loader the param is bound to. *)
C25_GetItemResolves ==
    [][hist'.ngets # hist.ngets =>
          LET key == hist'.got[1]
              value == ItemAt(coll, << key >>)
          IN  IF value.t = "param"
              THEN /\ exc' = NoExc
                   /\ \E l \in Loaders :
                        l = p_loader[value.p] /\ LoadValueStarts(l, << 1, value.p >>)
              ELSE /\ exc' = NoExc /\ stack' = stack
                   /\ hist'.got = << key, value >>
                   /\ UNCHANGED << loaderVars, slotVars, collVars >>]_vars

\* What a getter was given at the place a provenance names: the value a
\* finder holds there, or the value of the Func or Value getter.
RawValue(at) ==
    IF getters[at[1]].type = "Key"
    THEN configs[at[2]].finders[at[3]][at[4]]
    ELSE getters[at[1]].val

RECURSIVE Applied(_, _, _)
\* The last function of a pipeline on what the functions before it made of
\* the value, with the app and the provenance as context.
Applied(funcs, value, meta) ==
    IF funcs = << >> THEN value
    ELSE Call(funcs[Len(funcs)],
              Applied(SubSeq(funcs, 1, Len(funcs) - 1), value, meta), PickApp, meta)

\* The candidate the pick policy is to see for a provenance.
Expected(at) ==
    Applied(apply.param,
            Applied(IF getters[at[1]].type = "Key" THEN apply.key[at[1]] ELSE << >>,
                    RawValue(at), at),
            at)

(* C27: every candidate the pick policy gets is the value found at the place
   its provenance names, passed through the apply pipeline of the Key getter
   that found it (no pipeline for another getter) and then through the
   param's apply pipeline, each pipeline in the order given; the getter's
   apply runs before the param's, and both before the candidate is handed
   over; the values picked are these transformed values, and the provenance
   picked with them is that of the value found. *)
C27_ApplyBeforePick ==
    picked # NoPick =>
        /\ \A n \in 1..Len(picked.ran) :
             picked.ran[n].ev = "yield" =>
                LET y == picked.ran[n] IN
                /\ y.val = Expected(y.at)
                /\ n > 1 /\ picked.ran[n - 1] = Ran("param_apply", y.at)
                /\ getters[y.at[1]].type = "Key" =>
                       n > 2 /\ picked.ran[n - 2] = Ran("apply", y.at)
        /\ (picked.pick = "first" /\ picked.exc = NoExc) =>
               picked.value = Expected(picked.meta.v)
        /\ picked.pick = "list" =>
               picked.value = [i \in 1..Len(picked.meta.v) |-> Expected(picked.meta.v[i])]

\* A list is picked from a value found by a Key getter whose apply has two
\* different functions and a value of a Func getter, under a param with an
\* apply of its own.
C27_Witness ==
    /\ picked.pick = "list" /\ Len(picked.value) = 2
    /\ apply.param # << >>
    /\ \E i, j \in 1..2 :
         /\ getters[picked.meta.v[i][1]].type = "Key"
         /\ Len(apply.key[picked.meta.v[i][1]]) = 2
         /\ apply.key[picked.meta.v[i][1]][1] # apply.key[picked.meta.v[i][1]][2]
         /\ picked.value[i] # RawValue(picked.meta.v[i])
         /\ getters[picked.meta.v[j][1]].type = "Func"

\* How often the callable of getter g was called, and how many candidates
\* the getter handed over, in the resolution.
Calls(g) ==
    Cardinality({ n \in 1..Len(picked.ran) : picked.ran[n] = Ran("call", << g, 0, 0, 0 >>) })
Pairs(g) ==
    { n \in 1..Len(picked.ran) : picked.ran[n].ev = "yield" /\ picked.ran[n].at[1] = g }

\* The pick policy took a candidate of getter g into what it returned.
Consumed(g) ==
    /\ picked.exc = NoExc
    /\ CASE picked.pick = "first" -> picked.meta.v[1] = g
         [] picked.pick = "list" -> \E i \in 1..Len(picked.meta.v) : picked.meta.v[i][1] = g
         [] OTHER -> \E key \in DOMAIN picked.meta.v : picked.meta.v[key][1] = g

(* C28: in one resolution the callable of a Func or Method getter is called at
   most once, and exactly once when the pick policy has asked the getter for
   its candidate or uses it; the getter hands over as many pairs as it made
   calls, never more than one, and exactly one to a policy that goes through
   all candidates; the pair holds what the callable returned (passed through
   the param's apply) and the provenance made when the getter was constructed.  A Value getter calls
   nothing and hands over at most one pair, exactly one to a policy that
   goes through all candidates, with its literal value and its own
   provenance. *)
C28_CallableCalledOnce ==
    picked # NoPick =>
        \A g \in 1..Len(getters) :
            getters[g].type \in {"Func", "Value"} =>
                /\ Calls(g) = IF getters[g].type = "Func" THEN Cardinality(Pairs(g)) ELSE 0
                /\ Cardinality(Pairs(g)) <= 1
                /\ Consumed(g) => Cardinality(Pairs(g)) = 1
                /\ picked.pick # "first" => Cardinality(Pairs(g)) = 1
                /\ \A n \in Pairs(g) :
                     /\ picked.ran[n].at = << g, 0, 0, 0 >>
                     /\ picked.ran[n].val = Applied(apply.param, getters[g].val, << g, 0, 0, 0 >>)
                     /\ getters[g].type = "Func" =>
                            \E c \in 1..(n - 1) : picked.ran[c] = Ran("call", << g, 0, 0, 0 >>)

\* first takes the value of a Func getter, called once, and never calls the
\* Func getter after it.
C28_Witness ==
    /\ picked.pick = "first" /\ Len(getters) = 2
    /\ getters[1].type = "Func" /\ getters[2].type = "Func"
    /\ Calls(1) = 1 /\ Calls(2) = 0
    /\ picked.value = getters[1].val /\ picked.meta = Meta(<< 1, 0, 0, 0 >>)

\* The roles of a diamond: the param that reads two, and the param read
\* by both of these.
DiamondTop == CHOOSE a \in Params : Cardinality(reads[a]) = 2
DiamondBottom == CHOOSE d \in Params : \A b \in reads[DiamondTop] : reads[b] = {d}

(* C30: when A reads B and C and both read D, load() raises nothing; between
   two resets no param is resolved more than once, a resolution starts only
   for an attribute that holds no value, and when a getter reads an
   attribute that holds a value nothing is resolved; when load() has
   returned, every param, D among them, has been resolved exactly once since
   the last reset, is loaded and holds the value computed with all configs. *)
C30_DiamondResolvedOnce ==
    /\ [](exc = NoExc /\ err = NoExc)
    /\ [](\A p \in 1..NDiamond : p \in Params => hist.nres[<< 1, p >>] <= 1)
    /\ [][\A p \in Params :
            /\ hist'.nres[<< 1, p >>] > hist.nres[<< 1, p >>] => ~app_attr[<< 1, p >>].has
            /\ (/\ Running /\ Top.op = "resolve" /\ Len(stack') >= Len(stack)
                /\ p \in Top.todo /\ p \notin stack'[Len(stack)].todo
                /\ app_attr[<< 1, p >>].has)
               => /\ Len(stack') = Len(stack)
                  /\ hist'.nres = hist.nres
                  /\ UNCHANGED << loaderVars, slotVars >>]_vars
    /\ [](Returned(1) =>
            \A p \in 1..NDiamond : p \in Params =>
                /\ hist.nres[<< 1, p >>] = 1
                /\ << 1, p >> \in loaded_keys[1]
                /\ app_attr[<< 1, p >>] = Stored(ConfigsOf(1)))

\* In the final phase the second of the two readers has just read D, which
\* the first reader had resolved: A is still being resolved, the first
\* reader is loaded, and D has been resolved once.
C30_Witness ==
    /\ Len(stack) = 3 /\ Top.op = "resolve" /\ Top.todo = {}
    /\ stack[2].op = "resolve" /\ stack[2].k = << 1, DiamondTop >>
    /\ ParamOf(Top.k) \in reads[DiamondTop]
    /\ reads[DiamondTop] \ {ParamOf(Top.k)} \subseteq { ParamOf(k) : k \in loaded_keys[1] }
    /\ app_attr[<< 1, DiamondBottom >>].has
    /\ hist.nres[<< 1, DiamondBottom >>] = 1
    /\ Top.cfgs = ConfigsOf(1)

\* Whether loader l holds key k as loaded, as pending, as locked, and the
\* slots of k.
KeyState(l, k) ==
    << k \in loaded_keys[l], k \in Range(pending_keys[l]), k \in Range(locked_keys[l]),
       app_attr[k], app_meta[k] >>

(* C31: a getter that reads (app1, P) while (app2, P) is on the locked stack
   starts the resolution of (app1, P), with no error, whenever (app1, P) is
   pending, not locked itself and without a value; and a step that starts a
   resolution or stores a value for one key leaves what the loader holds
   for every other key, those of the same param included, as it is. *)
C31_KeyedByAppAndParam ==
    /\ [][hist'.nask # hist.nask =>
            LET k == hist'.asked
                l == p_loader[ParamOf(k)]
            IN  (/\ l \in Loaders
                 /\ ~app_attr[k].has
                 /\ k \in Range(pending_keys[l])
                 /\ k \notin Range(locked_keys[l]))
                => /\ exc' = NoExc
                   /\ LoadValueStarts(l, k)
                   /\ locked_keys'[l] = Append(locked_keys[l], k)]_vars
    /\ [][\A k \in Keys :
            (LoadValueStarts(1, k) \/ ValueStored(1, k)) =>
                \A j \in Keys \ {k} : KeyState(1, j)' = KeyState(1, j)]_vars

\* The key of one app is being resolved while the key of the other app and
\* the same param is on the locked stack.
C31_Witness ==
    /\ Len(locked_keys[1]) = 2
    /\ ParamOf(locked_keys[1][1]) = ParamOf(locked_keys[1][2])
    /\ AppOf(locked_keys[1][1]) # AppOf(locked_keys[1][2])
    /\ hist.asked = locked_keys[1][2]
    /\ exc = NoExc

(* C32: a call of add_attributes that fails because of a duplicate key
   leaves the loader as it was: nothing is registered, made pending, bound
   or marked mid-load. *)
C32_FailedAddChangesNothing ==
    [][(exc = NoExc /\ "duplicate" \in {exc'.site, err'.site} /\ << exc', err' >> # << exc, err >>) =>
          UNCHANGED << attributes, pending_keys, mid_load_keys, paramVars >>]_vars

\* The step in which load() of loader l exits after begin_load has refused
\* a param that another loader holds.
RefusedLoadExits(l) ==
    /\ stack # << >> /\ Top.op = "load" /\ Top.l = l
    /\ exc.site = "begin_load"
    /\ stack' = Front(stack)

(* C33: when load() of a loader exits because one of its params is bound to
   another loader, every param bound to another loader is still bound to
   that loader with the same counter. *)
C33_RefusedLoadKeepsBinding ==
    [][\A l \in Loaders :
          RefusedLoadExits(l) =>
              \A p \in Params :
                  p_loader[p] \notin {None, l} =>
                      p_loader'[p] = p_loader[p] /\ begin_count'[p] = begin_count[p]]_vars

\* A step in which the resolution on top of the stack ends with an
\* exception: one raised by a getter, an apply function or the pick policy
\* goes through it, or its on_load hook raises.
ResolutionRaises ==
    /\ stack # << >> /\ Top.op = "resolve"
    /\ stack' = Front(stack)
    /\ exc' # NoExc

\* The keys of the resolutions loader l has in progress, outermost first.
RECURSIVE InProgress(_, _)
InProgress(l, stk) ==
    IF stk = << >> THEN << >>
    ELSE IF Head(stk).op = "resolve" /\ Head(stk).l = l
    THEN << Head(stk).k >> \o InProgress(l, Tail(stk))
    ELSE InProgress(l, Tail(stk))

(* C34: when the resolution of a key ends with an exception the key is popped
   from the top of the locked stack, stays pending, is not loaded and its
   value and provenance slots are as they were; so the locked stack always
   holds exactly the keys of the resolutions in progress: a reset that goes
   through finds no key locked, and when a load() called by the application
   has exited, returning or raising, no key is locked. *)
C34_RaiseUnlocks ==
    /\ [][ResolutionRaises =>
            LET l == Top.l
                k == Top.k
            IN  /\ locked_keys[l] # << >> /\ Last(locked_keys[l]) = k
                /\ locked_keys'[l] = Front(locked_keys[l])
                /\ k \in Range(pending_keys'[l])
                /\ k \notin loaded_keys'[l]
                /\ app_attr'[k] = app_attr[k] /\ app_meta'[k] = app_meta[k]]_vars
    /\ [](\A l \in Loaders : locked_keys[l] = InProgress(l, stack))
    /\ [][\A l \in Loaders :
            /\ ResetStep(l) => locked_keys[l] = << >>
            /\ (LoadExit(l) /\ stack' = << >>) => locked_keys'[l] = << >>]_vars

\* The pick policy has raised in a resolution the final loop started, and the
\* exception has left the resolution: nothing is locked, the key is pending.
C34_Witness ==
    /\ exc.site = "pick" /\ Len(stack) = 1 /\ Top.pc = "final"
    /\ locked_keys[1] = << >>
    /\ pending_keys[1] # << >>
    /\ ~app_attr[pending_keys[1][1]].has

\* The latest load() of l was called after an earlier load() of l had returned.
Again(l) == hist.prev[l] = "returned"

\* The application calls load() of l once more after a load() that returned.
CalledAgain(l) == hist.done[l] = "returned" /\ hist'.ncalls # hist.ncalls /\ hist'.done[l] = "running"

\* The first reset of a load() of l that follows a load() that returned.
FirstResetAgain(l) ==
    /\ Again(l) /\ Running /\ Top.op = "load" /\ Top.l = l
    /\ Top.pc = "configs" /\ Top.i = 1
    /\ << stack', exc' >> # << stack, exc >>

(* C35: a load() called after a load() of the same loader has returned
   behaves like a fresh load: it binds every registered param and starts
   with an empty list of loaded configs and of called configs; its first
   reset raises nothing, deletes every value and provenance the first load
   stored, leaves nothing loaded and forgets the attributes the first load
   discovered in its final pass; and when it returns every config's load()
   has been called again, in order, every registered attribute was resolved
   once in the final pass, is loaded and holds a value, nothing is pending
   and every param is unbound. *)
C35_SecondLoadIsFresh ==
    /\ [][CalledAgain(1) =>
            /\ exc' = NoExc
            /\ loaded_configs[1] = ConfigsOf(1)
            /\ loaded_configs'[1] = << >> /\ hist'.calls[1] = << >>
            /\ loaded_keys[1] = Range(attributes[1])
            /\ \A k \in Range(attributes[1]) : p_loader'[ParamOf(k)] = 1]_vars
    /\ [][FirstResetAgain(1) =>
            /\ exc' = NoExc
            /\ loaded_keys[1] = Range(attributes[1])
            /\ \A k \in loaded_keys[1] : ~app_attr'[k].has /\ ~app_meta'[k].has
            /\ loaded_keys'[1] = {}
            /\ mid_load_keys[1] = hist.mid[1]
            /\ Range(attributes'[1]) = Range(attributes[1]) \ hist.mid[1]
            /\ pending_keys'[1] = attributes'[1]
            /\ mid_load_keys'[1] = {}]_vars
    /\ [](Again(1) /\ Returned(1) =>
            /\ hist.calls[1] = ConfigsOf(1)
            /\ loaded_configs[1] = ConfigsOf(1)
            /\ pending_keys[1] = << >>
            /\ loaded_keys[1] = Range(attributes[1])
            /\ \A k \in Range(attributes[1]) :
                    hist.nres[k] = 1 /\ app_attr[k].has /\ app_meta[k].has
            /\ \A p \in Params : p_loader[p] = None /\ begin_count[p] = 0)

\* The second load() has returned after a first one that returned too: it
\* called a config, and forgot and found again an attribute a hook adds.
C35_Witness ==
    /\ Again(1) /\ Returned(1)
    /\ hist.ncalls = 2
    /\ hist.calls[1] # << >>
    /\ hist.mid[1] # {}
    /\ hist.mid[1] \subseteq loaded_keys[1]

====
